---- MODULE Spec2Model ----
(***************************************************************************)
(* TangerineTripBot: the conversation controller of telegram-bot.ts, its   *)
(* session store and the itinerary generation it hands a session to.       *)
(*                                                                         *)
(* Texts are sequences of one-character strings, so that trim, parseInt,   *)
(* toUpperCase, split and the command regular expressions are computed as  *)
(* the JavaScript computes them.                                           *)
(***************************************************************************)
EXTENDS Integers, Sequences, FiniteSets, TLC

VARIABLES
    userSessions,   \* Map<chatId, UserSession>: a function on the chats that have a session
    pending,        \* per chat: the sendMessage promises whose .then callback has not run yet
    gens,           \* per chat: the generateItinerary calls suspended at an await
    out,            \* the chat-platform calls issued by the step just taken
    last,           \* the step just taken: the inbound event or the settled promise
    asked,          \* per chat: the question the chat was sent last, 0 when none is open
    offScript,      \* how many events so far did not answer the question on display
    response,       \* callOpenAI's return value handed to parseResponse, <<>> before
    itinerary,      \* what parseResponse made of it
    linkTripData,   \* the tripData of the session the links are built for
    clock,          \* new Date() and the time zone of the host as the links are built
    agodaLink,      \* the hotel link of generateItinerary
    flightLink,     \* the flight link of generateItinerary
    process         \* the node process: where its start-up stands, and its environment

vars == <<userSessions, pending, gens, out, last, asked, offScript, response, itinerary,
          linkTripData, clock, agodaLink, flightLink, process>>

\* the conversation, and the reply of the model with its parse
botVars == <<userSessions, pending, gens, out, last, asked, offScript>>
replyVars == <<response, itinerary>>
linkVars == <<linkTripData, clock, agodaLink, flightLink>>

-----------------------------------------------------------------------------
(* JavaScript strings and numbers *)

LowerChars == <<"a","b","c","d","e","f","g","h","i","j","k","l","m","n","o","p","q","r","s","t","u","v","w","x","y","z">>
UpperChars == <<"A","B","C","D","E","F","G","H","I","J","K","L","M","N","O","P","Q","R","S","T","U","V","W","X","Y","Z">>
Digits == <<"0","1","2","3","4","5","6","7","8","9">>

\* String.prototype.trim strips white space at both ends
IsWhiteSpace(ch) == ch \in {" "}

RECURSIVE trimStart(_)
trimStart(t) ==
    IF t # <<>> /\ IsWhiteSpace(Head(t)) THEN trimStart(Tail(t)) ELSE t

RECURSIVE trimEnd(_)
trimEnd(t) ==
    IF t # <<>> /\ IsWhiteSpace(t[Len(t)]) THEN trimEnd(SubSeq(t, 1, Len(t) - 1)) ELSE t

trim(t) == trimEnd(trimStart(t))

UpperChar(ch) ==
    IF \E k \in 1..Len(LowerChars) : LowerChars[k] = ch
    THEN UpperChars[CHOOSE k \in 1..Len(LowerChars) : LowerChars[k] = ch]
    ELSE ch

LowerChar(ch) ==
    IF \E k \in 1..Len(UpperChars) : UpperChars[k] = ch
    THEN LowerChars[CHOOSE k \in 1..Len(UpperChars) : UpperChars[k] = ch]
    ELSE ch

\* a comparison that forgets the letter case
toUpperCaseIdentity(t) == t

RECURSIVE toUpperCase(_)
toUpperCase(t) ==
    IF t = <<>> THEN <<>> ELSE <<UpperChar(Head(t))>> \o toUpperCase(Tail(t))

RECURSIVE toLowerCase(_)
toLowerCase(t) ==
    IF t = <<>> THEN <<>> ELSE <<LowerChar(Head(t))>> \o toLowerCase(Tail(t))

startsWith(t, p) == Len(t) >= Len(p) /\ SubSeq(t, 1, Len(p)) = p

\* String.prototype.includes, which is also what an unanchored RegExp of
\* literal characters (/\/plan/) tests
includes(t, p) ==
    \E i \in 1..(Len(t) - Len(p) + 1) : SubSeq(t, i, i + Len(p) - 1) = p

\* String.prototype.split on a one-character separator
RECURSIVE split(_, _)
split(t, sep) ==
    IF \E i \in 1..Len(t) : t[i] = sep
    THEN LET i == CHOOSE k \in 1..Len(t) : t[k] = sep /\ \A j \in 1..(k - 1) : t[j] # sep
         IN  <<SubSeq(t, 1, i - 1)>> \o split(SubSeq(t, i + 1, Len(t)), sep)
    ELSE <<t>>

\* JavaScript values that are a number, NaN or undefined
Num(n) == [kind |-> "number", n |-> n]
NaN == [kind |-> "NaN", n |-> 0]
Undefined == [kind |-> "undefined", n |-> 0]
isNaN(v) == v.kind # "number"

IsDigit(ch) == \E k \in 1..Len(Digits) : Digits[k] = ch
DigitValue(ch) == (CHOOSE k \in 1..Len(Digits) : Digits[k] = ch) - 1

RECURSIVE parseDigits(_, _)
parseDigits(t, acc) ==
    IF t # <<>> /\ IsDigit(Head(t))
    THEN parseDigits(Tail(t), acc * 10 + DigitValue(Head(t)))
    ELSE acc

\* parseInt(string, 10): leading white space, an optional sign, then the
\* longest run of digits; NaN when there is no digit
parseInt(t) ==
    LET s == trimStart(t)
        neg == s # <<>> /\ Head(s) = "-"
        body == IF s # <<>> /\ Head(s) \in {"+", "-"} THEN Tail(s) ELSE s
    IN  IF body = <<>> \/ ~IsDigit(Head(body)) THEN NaN
        ELSE Num(IF neg THEN 0 - parseDigits(body, 0) ELSE parseDigits(body, 0))

RECURSIVE digitsOf(_)
digitsOf(n) ==
    IF n < 10 THEN <<Digits[n + 1]>>
    ELSE Append(digitsOf(n \div 10), Digits[(n % 10) + 1])

\* Number.prototype.toString and template-literal formatting of a number
numberToString(v) ==
    IF v.kind = "NaN" THEN <<"N","a","N">>
    ELSE IF v.n < 0 THEN <<"-">> \o digitsOf(0 - v.n) ELSE digitsOf(v.n)

UNKNOWN == <<"u","n","k","n","o","w","n">>
YES == <<"Y","E","S">>
GeneralTourism == <<"G","e","n","e","r","a","l"," ","T","o","u","r","i","s","m">>

currencyMap ==
  <<
    <<<<"U","S","D">>, <<"U","S","D">>>>,
    <<<<"E","U","R">>, <<"E","U","R">>>>,
    <<<<"G","B","P">>, <<"G","B","P">>>>,
    <<<<"J","P","Y">>, <<"J","P","Y">>>>,
    <<<<"A","U","D">>, <<"A","U","D">>>>,
    <<<<"C","A","D">>, <<"C","A","D">>>>,
    <<<<"C","H","F">>, <<"C","H","F">>>>,
    <<<<"C","N","Y">>, <<"C","N","Y">>>>,
    <<<<"H","K","D">>, <<"H","K","D">>>>,
    <<<<"N","Z","D">>, <<"N","Z","D">>>>,
    <<<<"I","N","R">>, <<"I","N","R">>>>,
    <<<<"I","L","S">>, <<"I","L","S">>>>,
    <<<<"M","X","N">>, <<"M","X","N">>>>,
    <<<<"S","G","D">>, <<"S","G","D">>>>,
    <<<<"T","H","B">>, <<"T","H","B">>>>,
    <<<<"R","U","B">>, <<"R","U","B">>>>,
    <<<<"Z","A","R">>, <<"Z","A","R">>>>,
    <<<<"B","R","L">>, <<"B","R","L">>>>,
    <<<<"D","O","L","L","A","R">>, <<"U","S","D">>>>,
    <<<<"U","S"," ","D","O","L","L","A","R">>, <<"U","S","D">>>>,
    <<<<"A","M","E","R","I","C","A","N"," ","D","O","L","L","A","R">>, <<"U","S","D">>>>,
    <<<<"E","U","R","O">>, <<"E","U","R">>>>,
    <<<<"E","U","R","O","S">>, <<"E","U","R">>>>,
    <<<<"P","O","U","N","D">>, <<"G","B","P">>>>,
    <<<<"B","R","I","T","I","S","H"," ","P","O","U","N","D">>, <<"G","B","P">>>>,
    <<<<"S","T","E","R","L","I","N","G">>, <<"G","B","P">>>>,
    <<<<"Y","E","N">>, <<"J","P","Y">>>>,
    <<<<"J","A","P","A","N","E","S","E"," ","Y","E","N">>, <<"J","P","Y">>>>,
    <<<<"A","U","S","T","R","A","L","I","A","N"," ","D","O","L","L","A","R">>, <<"A","U","D">>>>,
    <<<<"A","U","D"," ","D","O","L","L","A","R">>, <<"A","U","D">>>>,
    <<<<"A","U","S","S","I","E"," ","D","O","L","L","A","R">>, <<"A","U","D">>>>,
    <<<<"C","A","N","A","D","I","A","N"," ","D","O","L","L","A","R">>, <<"C","A","D">>>>,
    <<<<"C","A","D"," ","D","O","L","L","A","R">>, <<"C","A","D">>>>,
    <<<<"S","W","I","S","S"," ","F","R","A","N","C">>, <<"C","H","F">>>>,
    <<<<"F","R","A","N","C">>, <<"C","H","F">>>>,
    <<<<"Y","U","A","N">>, <<"C","N","Y">>>>,
    <<<<"R","E","N","M","I","N","B","I">>, <<"C","N","Y">>>>,
    <<<<"C","H","I","N","E","S","E"," ","Y","U","A","N">>, <<"C","N","Y">>>>,
    <<<<"H","O","N","G"," ","K","O","N","G"," ","D","O","L","L","A","R">>, <<"H","K","D">>>>,
    <<<<"N","E","W"," ","Z","E","A","L","A","N","D"," ","D","O","L","L","A","R">>, <<"N","Z","D">>>>,
    <<<<"K","I","W","I"," ","D","O","L","L","A","R">>, <<"N","Z","D">>>>,
    <<<<"R","U","P","E","E">>, <<"I","N","R">>>>,
    <<<<"I","N","D","I","A","N"," ","R","U","P","E","E">>, <<"I","N","R">>>>,
    <<<<"S","H","E","K","E","L">>, <<"I","L","S">>>>,
    <<<<"I","S","R","A","E","L","I"," ","S","H","E","K","E","L">>, <<"I","L","S">>>>,
    <<<<"P","E","S","O">>, <<"M","X","N">>>>,
    <<<<"M","E","X","I","C","A","N"," ","P","E","S","O">>, <<"M","X","N">>>>,
    <<<<"S","I","N","G","A","P","O","R","E"," ","D","O","L","L","A","R">>, <<"S","G","D">>>>,
    <<<<"B","A","H","T">>, <<"T","H","B">>>>,
    <<<<"T","H","A","I"," ","B","A","H","T">>, <<"T","H","B">>>>,
    <<<<"R","U","B","L","E">>, <<"R","U","B">>>>,
    <<<<"R","U","S","S","I","A","N"," ","R","U","B","L","E">>, <<"R","U","B">>>>,
    <<<<"R","A","N","D">>, <<"Z","A","R">>>>,
    <<<<"S","O","U","T","H"," ","A","F","R","I","C","A","N"," ","R","A","N","D">>, <<"Z","A","R">>>>,
    <<<<"R","E","A","L">>, <<"B","R","L">>>>,
    <<<<"B","R","A","Z","I","L","I","A","N"," ","R","E","A","L">>, <<"B","R","L">>>>
  >>

\* currencyMap[normalizedInput] || null; null is the empty text, which is falsy
getCurrencyCode(input) ==
    LET normalizedInput == toUpperCase(trim(input))
    IN  IF \E i \in 1..Len(currencyMap) : currencyMap[i][1] = normalizedInput
        THEN currencyMap[CHOOSE i \in 1..Len(currencyMap) : currencyMap[i][1] = normalizedInput][2]
        ELSE <<>>

-----------------------------------------------------------------------------
(* Sessions and the chat platform *)

Chats == {"A", "B"}

\* the chat that talks where one conversation is followed
Solo == {"A"}

\* tripData of the session /plan creates
NewTripData ==
    [destination |-> <<>>, duration |-> <<>>, timeOfYear |-> <<>>,
     vacationStyle |-> <<>>, departureCity |-> <<>>, currency |-> <<>>,
     numberAdults |-> 0, numberKids |-> 0, luxuryLevel |-> Undefined,
     suggestDestination |-> "undefined"]

\* a session whose steps are counted from 0
NewSessionFromZero(userId) ==
    [step |-> 0, tripData |-> NewTripData, messageIds |-> 0, userId |-> userId]

\* messageIds holds the number of ids pushed: the ids are opaque values of the
\* platform that the program stores and never reads
NewSession(userId) ==
    [step |-> 1, tripData |-> NewTripData, messageIds |-> 0, userId |-> userId]

NoPending == [ask |-> 0, plan |-> FALSE, currency |-> 0]

\* The state the handlers run against, and the calls they issue (o)
World == [s |-> userSessions, p |-> pending, g |-> gens, o |-> <<>>]

has(w, c) == c \in DOMAIN w.s

Call(w, op, c, msg) ==
    [w EXCEPT !.o = Append(@, [op |-> op, chat |-> c, msg |-> msg])]

sendMessage(w, c, msg) == Call(w, "sendMessage", c, msg)
editMessageText(w, c, msg) == Call(w, "editMessageText", c, msg)
answerCallbackQuery(w, c) == Call(w, "answerCallbackQuery", c, "ack")

\* A generateItinerary call keeps its `session` object: once the map no longer
\* holds that object the call holds it alone, and nothing else can change it
Detach(w, c) ==
    [i \in 1..Len(w.g[c]) |->
        IF w.g[c][i].live /\ has(w, c)
        THEN [w.g[c][i] EXCEPT !.live = FALSE, !.held = w.s[c].tripData]
        ELSE w.g[c][i]]

\* a delete that leaves the entry in the map
deleteKeepsEntry(w, c) ==
    [w EXCEPT !.g[c] = Detach(w, c), !.p[c].plan = FALSE]

\* a delete that empties the whole map
deleteClearsMap(w, c) ==
    [w EXCEPT !.s = [x \in {} |-> w.s[x]],
              !.g[c] = Detach(w, c),
              !.p[c].plan = FALSE]

\* userSessions.delete(chatId)
delete(w, c) ==
    [w EXCEPT !.s = [x \in (DOMAIN w.s) \ {c} |-> w.s[x]],
              !.g[c] = Detach(w, c),
              !.p[c].plan = FALSE]

\* userSessions.set(chatId, newSession)
set(w, c, session) ==
    [w EXCEPT !.s = [x \in (DOMAIN w.s) \cup {c} |-> IF x = c THEN session ELSE w.s[x]],
              !.g[c] = Detach(w, c)]

\* ask*: send the question; its .then pushes the message id once the send settles
ask(w, c, question) ==
    [sendMessage(w, c, question) EXCEPT !.p[c].ask = @ + 1]

askDuration(w, c) == ask(w, c, "askDuration")
\* a duration answer that goes on to the styles, leaving a question out
askTimeOfYearLeftOut(w, c) == ask(w, c, "askVacationStyle")
askTimeOfYear(w, c) == ask(w, c, "askTimeOfYear")
askVacationStyle(w, c) == ask(w, c, "askVacationStyle")
askDepartureCity(w, c) == ask(w, c, "askDepartureCity")
askCurrency(w, c) == ask(w, c, "askCurrency")
askNumberAdults(w, c) == ask(w, c, "askNumberAdults")
askNumberKids(w, c) == ask(w, c, "askNumberKids")
askLuxuryLevel(w, c) == ask(w, c, "askLuxuryLevel")

-----------------------------------------------------------------------------
(* Itinerary generation *)

NewGeneration ==
    [pc |-> "loading", live |-> TRUE, held |-> NewTripData,
     tripData |-> NewTripData, requests |-> 0]

\* generateItinerary up to its first await
generateItinerary(w, c) ==
    IF ~has(w, c)
    THEN sendMessage(w, c, "sessionExpired")
    ELSE [sendMessage(w, c, "loading") EXCEPT !.g[c] = Append(@, NewGeneration)]

Or(a, b) == IF a # <<>> THEN a ELSE b

\* a TripDataRequest that asks for a suggestion only when the session has no
\* destination at all
PrepareTripDataNoSentinel(td) ==
    [destination |-> Or(td.destination, UNKNOWN),
     duration |-> Or(td.duration, UNKNOWN),
     timeOfYear |-> Or(td.timeOfYear, UNKNOWN),
     vacationStyle |-> td.vacationStyle,
     departureCity |-> Or(td.departureCity, <<"U","n","k","n","o","w","n">>),
     currency |-> Or(td.currency, <<"U","S","D">>),
     numberAdults |-> IF td.numberAdults # 0 THEN td.numberAdults ELSE 1,
     numberKids |-> td.numberKids,
     luxuryLevel |-> td.luxuryLevel,
     suggestDestination |-> IF td.destination = <<>> THEN "true" ELSE "false"]

\* a TripDataRequest that takes the numbers of travellers as the session has them
PrepareTripDataNoDefaults(td) ==
    [destination |-> Or(td.destination, UNKNOWN),
     duration |-> Or(td.duration, UNKNOWN),
     timeOfYear |-> Or(td.timeOfYear, UNKNOWN),
     vacationStyle |-> td.vacationStyle,
     departureCity |-> Or(td.departureCity, <<"U","n","k","n","o","w","n">>),
     currency |-> Or(td.currency, <<"U","S","D">>),
     numberAdults |-> td.numberAdults,
     numberKids |-> td.numberKids,
     luxuryLevel |-> td.luxuryLevel,
     suggestDestination |->
        IF td.destination = <<>> \/ td.destination = UNKNOWN THEN "true" ELSE "false"]

\* the TripDataRequest built from the session
PrepareTripData(td) ==
    [destination |-> Or(td.destination, UNKNOWN),
     duration |-> Or(td.duration, UNKNOWN),
     timeOfYear |-> Or(td.timeOfYear, UNKNOWN),
     vacationStyle |-> td.vacationStyle,
     departureCity |-> Or(td.departureCity, <<"U","n","k","n","o","w","n">>),
     currency |-> Or(td.currency, <<"U","S","D">>),
     numberAdults |-> IF td.numberAdults # 0 THEN td.numberAdults ELSE 1,
     numberKids |-> td.numberKids,
     luxuryLevel |-> td.luxuryLevel,
     suggestDestination |->
        IF td.destination = <<>> \/ td.destination = UNKNOWN THEN "true" ELSE "false"]

RemoveAt(seq, i) == SubSeq(seq, 1, i - 1) \o SubSeq(seq, i + 1, Len(seq))

SessionTripData(w, c, i) ==
    IF w.g[c][i].live THEN w.s[c].tripData ELSE w.g[c][i].held

\* a catch block that apologises and leaves the session where it is
generateItineraryCatchKeepsSession(w, c, i) ==
    [sendMessage(w, c, "apology") EXCEPT !.g[c] = RemoveAt(@, i)]

\* the catch block of generateItinerary
generateItineraryCatch(w, c, i) ==
    LET w1 == sendMessage(w, c, "apology")
        w2 == delete(w1, c)
    IN  [w2 EXCEPT !.g[c] = RemoveAt(@, i)]

\* how formatItinerary ends: it returns a message or throws
Formatted(message) == [threw |-> FALSE, message |-> message]
FormatThrew == [threw |-> TRUE, message |-> ""]

\* generateItinerary from the loading message deleted to the itinerary sent:
\* the links, formatItinerary and the send, or the catch block if it threw
sendItinerary(w, c, i, formatted) ==
    IF formatted.threw THEN generateItineraryCatch(w, c, i)
    ELSE [sendMessage(w, c, formatted.message) EXCEPT !.g[c][i].pc = "itinerary"]

\* generateItinerary from the await that settled to the next one
generateItineraryResume(w, c, i, ok) ==
    LET gen == w.g[c][i]
    IN  IF ~ok THEN generateItineraryCatch(w, c, i)
        ELSE CASE gen.pc = "loading" ->
                    [Call(w, "fetch", c, "openai") EXCEPT
                        !.g[c][i].pc = "openai",
                        !.g[c][i].tripData = PrepareTripData(SessionTripData(w, c, i)),
                        !.g[c][i].requests = @ + 1]
               [] gen.pc = "openai" ->
                    [Call(w, "deleteMessage", c, "loading") EXCEPT !.g[c][i].pc = "delete"]
               [] gen.pc = "delete" -> sendItinerary(w, c, i, Formatted("itinerary"))
               [] gen.pc = "itinerary" ->
                    [sendMessage(w, c, "planAnother") EXCEPT !.g[c][i].pc = "another"]
               [] gen.pc = "another" ->
                    LET w1 == delete(w, c)
                    IN  [w1 EXCEPT !.g[c] = RemoveAt(@, i)]

-----------------------------------------------------------------------------
(* parseResponse: the JSON object in the model's reply.  JSON.parse is computed
   for texts made of objects, arrays, strings without escapes and integers *)

JString(s) == [kind |-> "string", n |-> 0, s |-> s, members |-> <<>>]
JNumber(n) == [kind |-> "number", n |-> n, s |-> <<>>, members |-> <<>>]
JObject(members) == [kind |-> "object", n |-> 0, s |-> <<>>, members |-> members]
JArray(items) ==
    [kind |-> "array", n |-> 0, s |-> <<>>,
     members |-> [i \in DOMAIN items |-> [key |-> <<>>, value |-> items[i]]]]
JUndefined == [kind |-> "undefined", n |-> 0, s |-> <<>>, members |-> <<>>]

\* obj[key] = value: a key the object has keeps its place
Put(members, key, value) ==
    IF \E i \in DOMAIN members : members[i].key = key
    THEN [i \in DOMAIN members |->
            IF members[i].key = key THEN [key |-> key, value |-> value] ELSE members[i]]
    ELSE Append(members, [key |-> key, value |-> value])

SyntaxError == [ok |-> FALSE, value |-> JUndefined, pos |-> 0]
Parsed(value, pos) == [ok |-> TRUE, value |-> value, pos |-> pos]

RECURSIVE skipWhiteSpace(_, _)
skipWhiteSpace(t, i) ==
    IF i <= Len(t) /\ IsWhiteSpace(t[i]) THEN skipWhiteSpace(t, i + 1) ELSE i

RECURSIVE digitsEnd(_, _)
digitsEnd(t, i) == IF i <= Len(t) /\ IsDigit(t[i]) THEN digitsEnd(t, i + 1) ELSE i

\* the index of the first ch at or after i, 0 when there is none
RECURSIVE indexFrom(_, _, _)
indexFrom(t, ch, i) ==
    IF i > Len(t) THEN 0 ELSE IF t[i] = ch THEN i ELSE indexFrom(t, ch, i + 1)

\* the index of the last ch at or before i, 0 when there is none
RECURSIVE lastIndexFrom(_, _, _)
lastIndexFrom(t, ch, i) ==
    IF i < 1 THEN 0 ELSE IF t[i] = ch THEN i ELSE lastIndexFrom(t, ch, i - 1)

parseJsonString(t, i) ==
    IF i > Len(t) \/ t[i] # "\"" THEN SyntaxError
    ELSE LET k == indexFrom(t, "\"", i + 1)
         IN  IF k = 0 THEN SyntaxError ELSE Parsed(JString(SubSeq(t, i + 1, k - 1)), k + 1)

\* an integer: an optional minus, then 0 or a run of digits that does not start with 0
parseJsonNumber(t, i) ==
    LET neg == t[i] = "-"
        j == IF neg THEN i + 1 ELSE i
        e == IF j <= Len(t) /\ t[j] = "0" THEN j + 1 ELSE digitsEnd(t, j)
        v == parseDigits(SubSeq(t, j, e - 1), 0)
    IN  IF e = j THEN SyntaxError ELSE Parsed(JNumber(IF neg THEN 0 - v ELSE v), e)

RECURSIVE parseJsonValue(_, _)
RECURSIVE parseJsonMembers(_, _, _)
RECURSIVE parseJsonElements(_, _, _)

parseJsonElements(t, i, items) ==
    LET v == parseJsonValue(t, i)
        e == skipWhiteSpace(t, v.pos)
    IN  IF ~v.ok THEN SyntaxError
        ELSE IF e > Len(t) THEN SyntaxError
        ELSE IF t[e] = "," THEN parseJsonElements(t, e + 1, Append(items, v.value))
        ELSE IF t[e] = "]" THEN Parsed(JArray(Append(items, v.value)), e + 1)
        ELSE SyntaxError

parseJsonMembers(t, i, members) ==
    LET k == parseJsonString(t, skipWhiteSpace(t, i))
        c == skipWhiteSpace(t, k.pos)
        v == parseJsonValue(t, c + 1)
        e == skipWhiteSpace(t, v.pos)
        more == Put(members, k.value.s, v.value)
    IN  IF ~k.ok THEN SyntaxError
        ELSE IF c > Len(t) \/ t[c] # ":" THEN SyntaxError
        ELSE IF ~v.ok THEN SyntaxError
        ELSE IF e > Len(t) THEN SyntaxError
        ELSE IF t[e] = "," THEN parseJsonMembers(t, e + 1, more)
        ELSE IF t[e] = "}" THEN Parsed(JObject(more), e + 1)
        ELSE SyntaxError

parseJsonValue(t, i0) ==
    LET i == skipWhiteSpace(t, i0)
    IN  IF i > Len(t) THEN SyntaxError
        ELSE IF t[i] = "{"
             THEN LET j == skipWhiteSpace(t, i + 1)
                  IN  IF j <= Len(t) /\ t[j] = "}" THEN Parsed(JObject(<<>>), j + 1)
                      ELSE parseJsonMembers(t, i + 1, <<>>)
        ELSE IF t[i] = "["
             THEN LET j == skipWhiteSpace(t, i + 1)
                  IN  IF j <= Len(t) /\ t[j] = "]" THEN Parsed(JArray(<<>>), j + 1)
                      ELSE parseJsonElements(t, i + 1, <<>>)
        ELSE IF t[i] = "\"" THEN parseJsonString(t, i)
        ELSE IF t[i] = "-" \/ IsDigit(t[i]) THEN parseJsonNumber(t, i)
        ELSE SyntaxError

\* JSON.parse: one value, white space around it, nothing else
JSONparse(t) ==
    LET v == parseJsonValue(t, 1)
    IN  IF v.ok /\ skipWhiteSpace(t, v.pos) = Len(t) + 1 THEN v ELSE SyntaxError

\* response.match(/\{[\s\S]*\}/): from the first { to the last } after it
match(t) ==
    LET i == indexFrom(t, "{", 1)
        j == lastIndexFrom(t, "}", Len(t))
    IN  IF i # 0 /\ j > i THEN SubSeq(t, i, j) ELSE <<>>

\* the object returned when the reply holds no { ... }
NoJsonFallback ==
    JObject(<< [key |-> <<"d","e","s","t","i","n","a","t","i","o","n">>,
                value |-> JString(<<"'">>)],
               [key |-> <<"d","u","r","a","t","i","o","n">>, value |-> JString(<<>>)],
               [key |-> <<"t","r","a","v","e","l","D","a","t","e","s">>, value |-> JString(<<>>)],
               [key |-> <<"v","a","c","a","t","i","o","n","S","t","y","l","e">>,
                value |-> JString(<<>>)],
               [key |-> <<"d","e","p","a","r","t","u","r","e","C","i","t","y">>,
                value |-> JString(<<>>)],
               [key |-> <<"c","u","r","r","e","n","c","y">>, value |-> JString(<<>>)],
               [key |-> <<"n","u","m","b","e","r","A","d","u","l","t","s">>, value |-> JNumber(0)],
               [key |-> <<"n","u","m","b","e","r","K","i","d","s">>, value |-> JNumber(0)],
               [key |-> <<"l","u","x","u","r","y","L","e","v","e","l">>, value |-> JNumber(0)],
               [key |-> <<"s","u","m","m","a","r","y">>,
                value |-> JString(<<"U","n","a","b","l","e"," ","t","o"," ","g","e","n","e","r","a","t","e"," ","a"," ","d","e","t","a","i","l","e","d"," ","i","t","i","n","e","r","a","r","y","."," ","P","l","e","a","s","e"," ","t","r","y"," ","a","g","a","i","n",".">>)],
               [key |-> <<"d","a","i","l","y","P","l","a","n">>,
                value |-> JArray(<<JString(<<"N","o"," ","d","a","i","l","y"," ","p","l","a","n"," ","a","v","a","i","l","a","b","l","e">>)>>)],
               [key |-> <<"l","o","c","a","t","i","o","n","s">>,
                value |-> JArray(<<JString(<<"N","o"," ","s","p","e","c","i","f","i","c"," ","l","o","c","a","t","i","o","n","s"," ","a","v","a","i","l","a","b","l","e">>)>>)] >>)

\* the object returned from the catch block
ParseErrorFallback ==
    JObject(<< [key |-> <<"d","e","s","t","i","n","a","t","i","o","n">>,
                value |-> JString(<<"U","n","k","n","o","w","n"," ","d","e","s","t","i","n","a","t","i","o","n">>)],
               [key |-> <<"d","u","r","a","t","i","o","n">>,
                value |-> JString(<<"U","n","k","n","o","w","n"," ","d","u","r","a","t","i","o","n">>)],
               [key |-> <<"t","r","a","v","e","l","D","a","t","e","s">>,
                value |-> JString(<<"U","n","k","n","o","w","n"," ","d","a","t","e","s">>)],
               [key |-> <<"v","a","c","a","t","i","o","n","S","t","y","l","e">>,
                value |-> JString(<<"G","e","n","e","r","a","l"," ","t","o","u","r","i","s","m">>)],
               [key |-> <<"d","e","p","a","r","t","u","r","e","C","i","t","y">>,
                value |-> JString(<<"U","n","k","n","o","w","n"," ","d","e","p","a","r","t","u","r","e">>)],
               [key |-> <<"c","u","r","r","e","n","c","y">>, value |-> JString(<<"U","S","D">>)],
               [key |-> <<"n","u","m","b","e","r","A","d","u","l","t","s">>, value |-> JNumber(1)],
               [key |-> <<"n","u","m","b","e","r","K","i","d","s">>, value |-> JNumber(0)],
               [key |-> <<"l","u","x","u","r","y","L","e","v","e","l">>, value |-> JNumber(3)],
               [key |-> <<"s","u","m","m","a","r","y">>,
                value |-> JString(<<"E","r","r","o","r"," ","g","e","n","e","r","a","t","i","n","g"," ","i","t","i","n","e","r","a","r","y","."," ","P","l","e","a","s","e"," ","t","r","y"," ","a","g","a","i","n",".">>)],
               [key |-> <<"d","a","i","l","y","P","l","a","n">>,
                value |-> JArray(<<JString(<<"N","o"," ","d","a","i","l","y"," ","p","l","a","n"," ","a","v","a","i","l","a","b","l","e">>)>>)],
               [key |-> <<"l","o","c","a","t","i","o","n","s">>,
                value |-> JArray(<<JString(<<"N","o"," ","s","p","e","c","i","f","i","c"," ","l","o","c","a","t","i","o","n","s"," ","a","v","a","i","l","a","b","l","e">>)>>)] >>)

\* how a call ends: it returns a value or throws
Return(value) == [threw |-> FALSE, value |-> value]
Throw == [threw |-> TRUE, value |-> JUndefined]

\* the try block of parseResponse
parseResponseTry(t) ==
    LET jsonMatch == match(t)
        parsedData == JSONparse(jsonMatch)
    IN  IF jsonMatch = <<>> THEN Return(NoJsonFallback)
        ELSE IF parsedData.ok THEN Return(parsedData.value)
        ELSE Throw

\* a parseResponse whose catch block reports the error and throws it on
parseResponseRethrows(t) == parseResponseTry(t)

parseResponse(t) ==
    IF parseResponseTry(t).threw THEN Return(ParseErrorFallback) ELSE parseResponseTry(t)

NotParsed == Return(JUndefined)

-----------------------------------------------------------------------------
(* formatItinerary: the message made of the itinerary object.  What is kept of
   the message is its form, the full itinerary or the minimal fallback *)

\* value[key]: undefined for a key the value does not have
property(value, key) ==
    IF value.kind = "object" /\ \E i \in DOMAIN value.members : value.members[i].key = key
    THEN value.members[CHOOSE i \in DOMAIN value.members : value.members[i].key = key].value
    ELSE JUndefined

\* day.includes(':') and day.split(':') of one entry of sample_itinerary: a
\* string has both, an array has includes only, any other value has neither
dayThrows(day) ==
    CASE day.kind = "string" -> FALSE
      [] day.kind = "array" ->
            \E i \in DOMAIN day.members : day.members[i].value = JString(<<":">>)
      [] OTHER -> TRUE

\* the try block of formatItinerary: forEach needs an array, budget.flights a
\* budget
formatItineraryTry(plan) ==
    LET highlights == property(plan, <<"h","i","g","h","l","i","g","h","t","s">>)
        sample_itinerary == property(plan, <<"s","a","m","p","l","e","_","i","t","i","n","e","r","a","r","y">>)
        locations == property(plan, <<"l","o","c","a","t","i","o","n","s">>)
        budget == property(plan, <<"b","u","d","g","e","t">>)
    IN  IF plan.kind = "undefined" THEN FormatThrew
        ELSE IF highlights.kind # "array" THEN FormatThrew
        ELSE IF sample_itinerary.kind # "array" THEN FormatThrew
        ELSE IF \E i \in DOMAIN sample_itinerary.members :
                    dayThrows(sample_itinerary.members[i].value) THEN FormatThrew
        ELSE IF locations.kind # "array" THEN FormatThrew
        ELSE IF budget.kind = "undefined" THEN FormatThrew
        ELSE Formatted("itinerary")

\* a formatItinerary whose catch block reports the error and throws it on
formatItineraryRethrows(plan) == formatItineraryTry(plan)

\* the catch block reads itinerary.title and JSON.stringify(itinerary), which
\* any object lets it do
formatItinerary(plan) ==
    IF ~formatItineraryTry(plan).threw THEN formatItineraryTry(plan)
    ELSE IF plan.kind = "undefined" THEN FormatThrew
    ELSE Formatted("minimal")

NoReply == response = <<>> /\ itinerary = NotParsed

-----------------------------------------------------------------------------
(* The affiliate links of agoda-affiliate.ts.  A Date is its time value,    *)
(* counted in hours since 1970-01-01T00:00Z; timezoneOffset is the hours    *)
(* the host's local time is ahead of UTC, an input of the host.             *)

\* Agoda city ID mapping, in the order Object.entries walks it
agodaCityIds ==
    << [city |-> <<"b","a","n","g","k","o","k">>, id |-> 9395],
       [city |-> <<"l","o","n","d","o","n">>, id |-> 4548],
       [city |-> <<"p","a","r","i","s">>, id |-> 1633],
       [city |-> <<"n","e","w"," ","y","o","r","k">>, id |-> 10451],
       [city |-> <<"t","o","k","y","o">>, id |-> 4155],
       [city |-> <<"s","i","n","g","a","p","o","r","e">>, id |-> 4064],
       [city |-> <<"d","u","b","a","i">>, id |-> 4376],
       [city |-> <<"r","o","m","e">>, id |-> 1722],
       [city |-> <<"b","a","l","i">>, id |-> 17193],
       [city |-> <<"p","h","u","k","e","t">>, id |-> 8064],
       [city |-> <<"b","a","r","c","e","l","o","n","a">>, id |-> 1718],
       [city |-> <<"h","o","n","g"," ","k","o","n","g">>, id |-> 1710],
       [city |-> <<"i","s","t","a","n","b","u","l">>, id |-> 3962],
       [city |-> <<"k","u","a","l","a"," ","l","u","m","p","u","r">>, id |-> 4078],
       [city |-> <<"s","e","o","u","l">>, id |-> 4168],
       [city |-> <<"a","m","s","t","e","r","d","a","m">>, id |-> 1704],
       [city |-> <<"m","i","a","m","i">>, id |-> 10402],
       [city |-> <<"l","o","s"," ","a","n","g","e","l","e","s">>, id |-> 10401],
       [city |-> <<"b","e","r","l","i","n">>, id |-> 1712],
       [city |-> <<"s","y","d","n","e","y">>, id |-> 14370],
       [city |-> <<"m","a","d","r","i","d">>, id |-> 1725],
       [city |-> <<"v","e","n","i","c","e">>, id |-> 1747],
       [city |-> <<"l","a","s"," ","v","e","g","a","s">>, id |-> 10389],
       [city |-> <<"v","i","e","n","n","a">>, id |-> 1726],
       [city |-> <<"p","r","a","g","u","e">>, id |-> 1713],
       [city |-> <<"m","i","l","a","n">>, id |-> 1730],
       [city |-> <<"b","u","d","a","p","e","s","t">>, id |-> 1705],
       [city |-> <<"l","i","s","b","o","n">>, id |-> 1724],
       [city |-> <<"f","l","o","r","e","n","c","e">>, id |-> 1719],
       [city |-> <<"s","a","n"," ","f","r","a","n","c","i","s","c","o">>, id |-> 10409] >>

\* days from 1970-01-01 to the civil date y-m-d, and back (the proleptic
\* Gregorian calendar of ECMAScript's MakeDay and YearFromTime)
DaysFromCivil(y, m, d) ==
    LET yy == IF m <= 2 THEN y - 1 ELSE y
        era == yy \div 400
        yoe == yy - era * 400
        mp == IF m > 2 THEN m - 3 ELSE m + 9
        doy == (153 * mp + 2) \div 5 + d - 1
        doe == yoe * 365 + yoe \div 4 - yoe \div 100 + doy
    IN  era * 146097 + doe - 719468

CivilFromDays(z) ==
    LET zz == z + 719468
        era == zz \div 146097
        doe == zz - era * 146097
        yoe == (doe - doe \div 1460 + doe \div 36524 - doe \div 146096) \div 365
        doy == doe - (365 * yoe + yoe \div 4 - yoe \div 100)
        mp == (5 * doy + 2) \div 153
        m == IF mp < 10 THEN mp + 3 ELSE mp - 9
    IN  [y |-> yoe + era * 400 + (IF m <= 2 THEN 1 ELSE 0),
         m |-> m,
         d |-> doy - (153 * mp + 2) \div 5 + 1]

Date(t) == [valid |-> TRUE, t |-> t]
InvalidDate == [valid |-> FALSE, t |-> 0]

\* the local calendar day and hour of a Date on a host timezoneOffset hours
\* ahead of UTC
LocalDay(date, timezoneOffset) == (date.t + timezoneOffset) \div 24
LocalHour(date, timezoneOffset) == (date.t + timezoneOffset) % 24

\* new Date(year, monthIndex, day): local midnight of that day
newDate(year, month, day, timezoneOffset) ==
    Date(DaysFromCivil(year, month, day) * 24 - timezoneOffset)

getFullYear(date, timezoneOffset) == CivilFromDays(LocalDay(date, timezoneOffset)).y
getDate(date, timezoneOffset) == CivilFromDays(LocalDay(date, timezoneOffset)).d

\* Date.prototype.setDate: the day of the month is set in local time, days
\* beyond the month run on into the next; NaN makes the Date invalid
setDate(date, day, timezoneOffset) ==
    IF ~date.valid \/ isNaN(day) THEN InvalidDate
    ELSE LET civil == CivilFromDays(LocalDay(date, timezoneOffset))
         IN  Date((DaysFromCivil(civil.y, civil.m, 1) + day.n - 1) * 24
                  + LocalHour(date, timezoneOffset) - timezoneOffset)

padStart(t, n) == IF Len(t) < n THEN [i \in 1..(n - Len(t)) |-> "0"] \o t ELSE t

\* Date.prototype.toISOString: the UTC date and time; a RangeError on an
\* invalid Date
toISOString(date) ==
    IF ~date.valid THEN Throw
    ELSE LET civil == CivilFromDays(date.t \div 24)
         IN  Return(padStart(digitsOf(civil.y), 4) \o <<"-">>
                    \o padStart(digitsOf(civil.m), 2) \o <<"-">>
                    \o padStart(digitsOf(civil.d), 2) \o <<"T">>
                    \o padStart(digitsOf(date.t % 24), 2)
                    \o <<":","0","0",":","0","0",".","0","0","0","Z">>)

\* const formatDate = (date) => date.toISOString().split('T')[0]
formatDate(date) ==
    IF toISOString(date).threw THEN Throw
    ELSE Return(split(toISOString(date).value, "T")[1])

months ==
    << <<"j","a","n","u","a","r","y">>,
       <<"f","e","b","r","u","a","r","y">>,
       <<"m","a","r","c","h">>,
       <<"a","p","r","i","l">>,
       <<"m","a","y">>,
       <<"j","u","n","e">>,
       <<"j","u","l","y">>,
       <<"a","u","g","u","s","t">>,
       <<"s","e","p","t","e","m","b","e","r">>,
       <<"o","c","t","o","b","e","r">>,
       <<"n","o","v","e","m","b","e","r">>,
       <<"d","e","c","e","m","b","e","r">> >>

\* a mapping that knows no keyword and keeps the default month
targetMonthDefaultOnly(timeOfYear) == 6

\* the month the time of year stands for, from the lower-cased text
targetMonth(timeOfYear) ==
    IF includes(timeOfYear, <<"w","i","n","t","e","r">>)
            \/ includes(timeOfYear, <<"d","e","c","e","m","b","e","r">>)
            \/ includes(timeOfYear, <<"j","a","n","u","a","r","y">>)
            \/ includes(timeOfYear, <<"f","e","b","r","u","a","r","y">>) THEN 1
    ELSE IF includes(timeOfYear, <<"s","p","r","i","n","g">>)
            \/ includes(timeOfYear, <<"m","a","r","c","h">>)
            \/ includes(timeOfYear, <<"a","p","r","i","l">>)
            \/ includes(timeOfYear, <<"m","a","y">>) THEN 4
    ELSE IF includes(timeOfYear, <<"s","u","m","m","e","r">>)
            \/ includes(timeOfYear, <<"j","u","n","e">>)
            \/ includes(timeOfYear, <<"j","u","l","y">>)
            \/ includes(timeOfYear, <<"a","u","g","u","s","t">>) THEN 7
    ELSE IF includes(timeOfYear, <<"f","a","l","l">>)
            \/ includes(timeOfYear, <<"a","u","t","u","m","n">>)
            \/ includes(timeOfYear, <<"s","e","p","t","e","m","b","e","r">>)
            \/ includes(timeOfYear, <<"o","c","t","o","b","e","r">>)
            \/ includes(timeOfYear, <<"n","o","v","e","m","b","e","r">>) THEN 10
    ELSE IF \E i \in 1..Len(months) : includes(timeOfYear, months[i])
         THEN CHOOSE i \in 1..Len(months) :
                /\ includes(timeOfYear, months[i])
                /\ \A j \in 1..(i - 1) : ~includes(timeOfYear, months[j])
         ELSE 6

\* the 15th of the target month, this year's unless that is before now
targetDate(timeOfYear, now, timezoneOffset) ==
    LET currentYear == getFullYear(now, timezoneOffset)
        month == targetMonth(toLowerCase(timeOfYear))
        thisYear == newDate(currentYear, month, 15, timezoneOffset)
    IN  IF thisYear.t < now.t
        THEN newDate(currentYear + 1, month, 15, timezoneOffset)
        ELSE thisYear

\* parseInt(tripData.duration?.split(' ')[0] || '5', 10)
parseDuration(duration) ==
    parseInt(Or(split(duration, " ")[1], <<"5">>))

\* new Date() moved on by a number of days
daysFromNow(now, days, timezoneOffset) ==
    setDate(now, Num(getDate(now, timezoneOffset) + days), timezoneOffset)

plusDays(date, duration, timezoneOffset) ==
    IF isNaN(duration) THEN setDate(date, NaN, timezoneOffset)
    ELSE setDate(date, Num(getDate(date, timezoneOffset) + duration.n), timezoneOffset)

\* a link: its address up to the question mark and its URLSearchParams, or
\* the exception that building it threw
Link(url, params) == [threw |-> FALSE, url |-> url, params |-> params]
LinkError == [threw |-> TRUE, url |-> "", params |-> <<>>]
NotBuilt == [threw |-> FALSE, url |-> "", params |-> <<>>]

append(params, name, value) == Append(params, [name |-> name, value |-> value])
appendIf(cond, params, name, value) == IF cond THEN append(params, name, value) ELSE params

\* the city id of the destination: the exact key, else the first key that
\* contains it or is contained in it, else Bangkok
cityIdOf(tripDestination) ==
    LET destination == toLowerCase(tripDestination)
        exact == {i \in 1..Len(agodaCityIds) : agodaCityIds[i].city = destination}
        partial == {i \in 1..Len(agodaCityIds) :
                        \/ includes(destination, agodaCityIds[i].city)
                        \/ includes(agodaCityIds[i].city, destination)}
        first(ids) == CHOOSE i \in ids : \A j \in ids : i <= j
        cityId == IF exact # {} THEN agodaCityIds[first(exact)].id
                  ELSE IF partial # {} THEN agodaCityIds[first(partial)].id
                  ELSE 0
    IN  IF cityId = 0 THEN 9395 ELSE cityId

buildAgodaAffiliateLink(tripData, now, timezoneOffset) ==
    LET defaultCheckIn == daysFromNow(now, 30, timezoneOffset)
        defaultCheckOut == plusDays(defaultCheckIn, Num(5), timezoneOffset)
        cityId == cityIdOf(tripData.destination)
        dated == tripData.timeOfYear # <<>>
        checkIn == IF dated THEN targetDate(tripData.timeOfYear, now, timezoneOffset)
                   ELSE defaultCheckIn
        checkOut == IF dated
                    THEN plusDays(checkIn, parseDuration(tripData.duration), timezoneOffset)
                    ELSE defaultCheckOut
        p1 == append(append(append(<<>>, "pcs", <<"1">>),
                            "cid", <<"1","9","3","7","7","5","1">>),
                     "hl", <<"e","n","-","u","s">>)
        p2 == append(p1, "city", digitsOf(cityId))
        p3 == append(p2, "checkIn", formatDate(checkIn).value)
        p4 == append(p3, "checkOut", formatDate(checkOut).value)
        p5 == append(p4, "adults",
                     digitsOf(IF tripData.numberAdults # 0 THEN tripData.numberAdults ELSE 2))
        p6 == appendIf(tripData.numberKids > 0, p5, "children", digitsOf(tripData.numberKids))
        p7 == appendIf(~isNaN(tripData.luxuryLevel) /\ tripData.luxuryLevel.n > 0, p6,
                       "hotelStarRating", numberToString(tripData.luxuryLevel))
    IN  IF formatDate(checkIn).threw \/ formatDate(checkOut).threw THEN LinkError
        ELSE Link("https://www.agoda.com/partners/partnersearch.aspx", p7)

\* the wrapper of the bot: a fallback link when the builder throws
safeAgodaLinkBuilder(tripData, now, timezoneOffset) ==
    IF buildAgodaAffiliateLink(tripData, now, timezoneOffset).threw
    THEN Link("https://www.agoda.com/", <<>>)
    ELSE buildAgodaAffiliateLink(tripData, now, timezoneOffset)

\* encodeURIComponent on the characters the texts here are made of: letters
\* and digits stay, a space becomes %20
RECURSIVE encodeURIComponent(_)
encodeURIComponent(t) ==
    IF t = <<>> THEN <<>>
    ELSE (IF Head(t) = " " THEN <<"%","2","0">> ELSE <<Head(t)>>)
         \o encodeURIComponent(Tail(t))

buildAgodaFlightLink(tripData, now, timezoneOffset) ==
    LET defaultDepartureDate == daysFromNow(now, 30, timezoneOffset)
        duration == parseDuration(tripData.duration)
        defaultReturnDate == plusDays(defaultDepartureDate, duration, timezoneOffset)
        dated == tripData.timeOfYear # <<>>
        departureDate == IF dated THEN targetDate(tripData.timeOfYear, now, timezoneOffset)
                         ELSE defaultDepartureDate
        returnDate == IF dated THEN plusDays(departureDate, duration, timezoneOffset)
                      ELSE defaultReturnDate
        p1 == append(<<>>, "cid", <<"1","9","3","7","7","5","1">>)
        p2 == append(p1, "origin", encodeURIComponent(Or(tripData.departureCity, <<"a","n","y">>)))
        p3 == append(p2, "destination", encodeURIComponent(Or(tripData.destination, <<"a","n","y">>)))
        p4 == append(p3, "departDate", formatDate(departureDate).value)
        p5 == append(p4, "returnDate", formatDate(returnDate).value)
        p6 == append(p5, "adults",
                     digitsOf(IF tripData.numberAdults # 0 THEN tripData.numberAdults ELSE 1))
        p7 == append(p6, "children", digitsOf(tripData.numberKids))
    IN  IF formatDate(departureDate).threw \/ formatDate(returnDate).threw THEN LinkError
        ELSE Link("https://www.agoda.com/flights", p7)

\* the links of a conversation that has not come to them
NoClock == [now |-> Date(0), timezoneOffset |-> 0]
NoLinks ==
    /\ linkTripData = NewTripData /\ clock = NoClock
    /\ agodaLink = NotBuilt /\ flightLink = NotBuilt

\* a variable of process.env: a string, or undefined when it is not set
EnvVar(value) == [set |-> TRUE, value |-> value]
Unset == [set |-> FALSE, value |-> ""]
\* !value
Not(value) == ~value.set \/ value.value = ""

\* the node process: where the module's top-level code stands, its
\* environment after config(), whether the bot instance exists, and the code
\* it exited with (-1 while it runs)
Process(pc, TELEGRAM_TOKEN, OPENAI_API_KEY) ==
    [pc |-> pc, env |-> [TELEGRAM_TOKEN |-> TELEGRAM_TOKEN, OPENAI_API_KEY |-> OPENAI_API_KEY],
     bot |-> FALSE, exitCode |-> 0 - 1]

exit(p, code) == [p EXCEPT !.pc = "exited", !.exitCode = code]

\* if (!TELEGRAM_TOKEN) { ...; process.exit(1) }
checkTelegramToken(p) ==
    IF Not(p.env.TELEGRAM_TOKEN) THEN exit(p, 1) ELSE [p EXCEPT !.pc = "OPENAI_API_KEY"]

\* a check that takes only an unset variable for missing, not an empty one
checkOpenAIKeyUnsetOnly(p) ==
    IF ~p.env.OPENAI_API_KEY.set THEN exit(p, 1) ELSE [p EXCEPT !.pc = "bot"]

\* if (!OPENAI_API_KEY) { ...; process.exit(1) }
checkOpenAIKey(p) ==
    IF Not(p.env.OPENAI_API_KEY) THEN exit(p, 1) ELSE [p EXCEPT !.pc = "bot"]

\* const bot = new TelegramBot(TELEGRAM_TOKEN, { polling: true })
newTelegramBot(p) == [p EXCEPT !.pc = "handlers", !.bot = TRUE]

\* the process once its start-up is through: the token and the key were set,
\* the bot is created and polling, the handlers are registered
Running ==
    [Process("running", EnvVar("token"), EnvVar("key")) EXCEPT !.bot = TRUE]
Started == process = Running

-----------------------------------------------------------------------------
(* Command handlers *)

\* a /plan that resets the step and keeps the trip parameters collected so far
planCommandKeepsTripData(w, c) ==
    LET kept == IF has(w, c) THEN w.s[c].tripData ELSE NewTripData
        w1 == IF has(w, c) THEN delete(w, c) ELSE w
        w2 == [set(w1, c, [NewSession(c) EXCEPT !.tripData = kept]) EXCEPT !.p[c].plan = TRUE]
    IN  sendMessage(w2, c, "planWelcome")

\* bot.onText(/\/plan/)
planCommand(w, c) ==
    LET w1 == IF has(w, c) THEN delete(w, c) ELSE w
        w2 == [set(w1, c, NewSession(c)) EXCEPT !.p[c].plan = TRUE]
    IN  sendMessage(w2, c, "planWelcome")

\* bot.onText(/\/start/): the command list is sent once the greeting is delivered;
\* neither send reads or writes any state, so both are recorded with the command
startCommand(w, c) ==
    sendMessage(sendMessage(w, c, "startWelcome"), c, "startCommands")

\* bot.onText(/\/help/)
helpCommand(w, c) == sendMessage(w, c, "help")

\* a /cancel that only says so
cancelCommandKeepsSession(w, c) == sendMessage(w, c, "cancelled")

\* bot.onText(/\/cancel/)
cancelCommand(w, c) == sendMessage(delete(w, c), c, "cancelled")

-----------------------------------------------------------------------------
(* bot.on('message') *)

JoinDays(v) == numberToString(v) \o <<" ","d","a","y","s">>

RECURSIVE mapTrim(_)
mapTrim(parts) ==
    IF parts = <<>> THEN <<>> ELSE <<trim(Head(parts))>> \o mapTrim(Tail(parts))

messageStep(w, c, text) ==
    LET session == w.s[c]
        input == trim(text)
        n == parseInt(input)
    IN  CASE session.step = 1 ->
               askDuration(
                 [w EXCEPT !.s[c].tripData.destination = Or(input, UNKNOWN),
                           !.s[c].tripData.suggestDestination =
                               IF input = <<>> THEN "true" ELSE "false",
                           !.s[c].step = @ + 1], c)
          [] session.step = 2 ->
               IF input = <<>> THEN w
               ELSE IF ~isNaN(n) /\ n.n > 0 /\ n.n <= 100
                    THEN askTimeOfYear(
                           [w EXCEPT !.s[c].tripData.duration = JoinDays(n),
                                     !.s[c].step = @ + 1], c)
                    ELSE sendMessage(w, c, "invalidDuration")
          [] session.step = 3 ->
               askVacationStyle(
                 [w EXCEPT !.s[c].tripData.timeOfYear = Or(input, UNKNOWN),
                           !.s[c].step = @ + 1], c)
          [] session.step = 4 ->
               askDepartureCity(
                 [w EXCEPT !.s[c].tripData.vacationStyle = mapTrim(split(input, ",")),
                           !.s[c].step = @ + 1], c)
          [] session.step = 5 ->
               askCurrency(
                 [w EXCEPT !.s[c].tripData.departureCity = input,
                           !.s[c].step = 6], c)
          [] session.step = 6 ->
               IF input = <<>> THEN w
               ELSE [sendMessage(
                       [w EXCEPT !.s[c].tripData.currency = Or(getCurrencyCode(input), input),
                                 !.s[c].step = @ + 1], c, "currencySet")
                     EXCEPT !.p[c].currency = @ + 1]
          [] session.step = 7 ->
               IF input = <<>> THEN w
               ELSE IF ~isNaN(n) /\ n.n > 0 /\ n.n <= 20
                    THEN askNumberKids(
                           [w EXCEPT !.s[c].tripData.numberAdults = n.n,
                                     !.s[c].step = @ + 1], c)
                    ELSE sendMessage(w, c, "invalidAdults")
          [] session.step = 8 ->
               IF input = <<>> THEN w
               ELSE IF ~isNaN(n) /\ n.n >= 0 /\ n.n <= 20
                    THEN askLuxuryLevel(
                           [w EXCEPT !.s[c].tripData.numberKids = n.n,
                                     !.s[c].step = @ + 1], c)
                    ELSE sendMessage(w, c, "invalidKids")
          [] session.step = 9 ->
               sendMessage(
                 [w EXCEPT !.s[c].tripData.luxuryLevel = IF isNaN(n) THEN Undefined ELSE n,
                           !.s[c].step = @ + 1], c, "summary")
          [] session.step = 10 ->
               IF toUpperCase(input) = YES
               THEN generateItinerary(w, c)
               ELSE delete(sendMessage(w, c, "cancelled"), c)
          [] OTHER ->
               delete(sendMessage(w, c, "sessionError"), c)

messageHandler(w, c, text) ==
    IF text = <<>> \/ startsWith(text, <<"/">>) THEN w
    ELSE IF ~has(w, c) THEN sendMessage(w, c, "usePlan")
    ELSE messageStep(w, c, text)

\* The library hands a text message to the 'message' listeners, then to every
\* onText handler whose expression matches, in the order they were registered
onTextMessage(w, c, text) ==
    LET w1 == messageHandler(w, c, text)
        w2 == IF includes(text, <<"/","p","l","a","n">>) THEN planCommand(w1, c) ELSE w1
        w3 == IF includes(text, <<"/","s","t","a","r","t">>) THEN startCommand(w2, c) ELSE w2
        w4 == IF includes(text, <<"/","h","e","l","p">>) THEN helpCommand(w3, c) ELSE w3
    IN  IF includes(text, <<"/","c","a","n","c","e","l">>) THEN cancelCommand(w4, c) ELSE w4

-----------------------------------------------------------------------------
(* bot.on('callback_query'): data is prefix_value, value = data.split('_')[1] *)

indexOf(seq, x) ==
    IF \E i \in 1..Len(seq) : seq[i] = x
    THEN CHOOSE i \in 1..Len(seq) : seq[i] = x /\ \A j \in 1..(i - 1) : seq[j] # x
    ELSE 0

\* a Done that leaves an empty selection empty
styleDoneKeepsEmpty(w, c) ==
    askDepartureCity(
      [editMessageText(answerCallbackQuery(w, c), c, "stylesConfirmed") EXCEPT !.s[c].step = 5], c)

styleDone(w, c) ==
    LET w1 == IF w.s[c].tripData.vacationStyle = <<>>
              THEN [w EXCEPT !.s[c].tripData.vacationStyle = <<GeneralTourism>>]
              ELSE w
        w2 == editMessageText(answerCallbackQuery(w1, c), c, "stylesConfirmed")
    IN  askDepartureCity([w2 EXCEPT !.s[c].step = 5], c)

\* a toggle that removes the style selected last, whichever was clicked
styleToggleRemovesLast(w, c, style) ==
    LET styleIndex == indexOf(w.s[c].tripData.vacationStyle, style)
        w1 == IF styleIndex = 0
              THEN [w EXCEPT !.s[c].tripData.vacationStyle = Append(@, style)]
              ELSE [w EXCEPT !.s[c].tripData.vacationStyle = SubSeq(@, 1, Len(@) - 1)]
    IN  editMessageText(answerCallbackQuery(w1, c), c, "stylesSelected")

styleToggle(w, c, style) ==
    LET styleIndex == indexOf(w.s[c].tripData.vacationStyle, style)
        w1 == IF styleIndex = 0
              THEN [w EXCEPT !.s[c].tripData.vacationStyle = Append(@, style)]
              ELSE [w EXCEPT !.s[c].tripData.vacationStyle = RemoveAt(@, styleIndex)]
    IN  editMessageText(answerCallbackQuery(w1, c), c, "stylesSelected")

Selected(w, c, msg) == editMessageText(answerCallbackQuery(w, c), c, msg)

callbackQueryHandler(w, c, data) ==
    IF ~has(w, c) THEN w
    ELSE LET n == parseInt(data.value)
         IN  CASE data.prefix = "duration" ->
                    askTimeOfYear(Selected(
                      [w EXCEPT !.s[c].tripData.duration = JoinDays(n)], c, "durationSelected"), c)
               [] data.prefix \in {"month", "season"} ->
                    askVacationStyle(Selected(
                      [w EXCEPT !.s[c].tripData.timeOfYear = data.value], c, "timeSelected"), c)
               [] data.prefix = "style" ->
                    IF data.value = <<"d","o","n","e">> THEN styleDone(w, c)
                    ELSE styleToggle(w, c, data.value)
               [] data.prefix = "currency" ->
                    askNumberAdults(Selected(
                      [w EXCEPT !.s[c].tripData.currency = data.value], c, "currencySelected"), c)
               [] data.prefix = "adults" ->
                    askNumberKids(Selected(
                      [w EXCEPT !.s[c].tripData.numberAdults = IF isNaN(n) THEN 1 ELSE n.n],
                      c, "adultsSelected"), c)
               [] data.prefix = "kids" ->
                    askLuxuryLevel(Selected(
                      [w EXCEPT !.s[c].tripData.numberKids = IF isNaN(n) THEN 0 ELSE n.n],
                      c, "kidsSelected"), c)
               [] data.prefix = "luxury" ->
                    LET w1 == Selected([w EXCEPT !.s[c].tripData.luxuryLevel = n],
                                       c, "luxurySelected")
                    IN  [sendMessage(w1, c, "summaryConfirm") EXCEPT !.s[c].step = 10]
               [] data.prefix = "confirm" ->
                    IF data.value = <<"y","e","s">>
                    THEN generateItinerary(
                           editMessageText(answerCallbackQuery(w, c), c, "summaryKept"), c)
                    ELSE delete(editMessageText(answerCallbackQuery(w, c), c, "cancelled"), c)
               [] OTHER -> w

-----------------------------------------------------------------------------
(* The events the model draws from *)

Word == <<"R","o","m","e">>
Number == <<"2">>
Zero == <<"0">>
Blank == <<" ">>
MixedYes == <<" ","y","E","s">>
Commands == { <<"/","p","l","a","n">>, <<"/","s","t","a","r","t">>, <<"/","h","e","l","p">>, <<"/","c","a","n","c","e","l">> }

\* what a user types
Texts == Commands \cup {Word, Number, Zero, Blank, MixedYes}

\* callback_data of buttons the bot puts on its keyboards
Button(prefix, value) == [prefix |-> prefix, value |-> value]

Buttons ==
    { Button("duration", <<"2">>), Button("month", <<"J","u","l","y">>),
      Button("style", <<"C","i","t","y">>), Button("style", <<"d","o","n","e">>),
      Button("currency", <<"E","U","R">>), Button("adults", <<"2">>), Button("kids", <<"2">>),
      Button("luxury", <<"2">>), Button("confirm", <<"y","e","s">>), Button("confirm", <<"n","o">>) }

\* the number of the question a message asks, 0 for any other message
QuestionOf(msg) ==
    CASE msg = "planWelcome" -> 1
      [] msg = "askDuration" -> 2
      [] msg = "askTimeOfYear" -> 3
      [] msg = "askVacationStyle" -> 4
      [] msg = "askDepartureCity" -> 5
      [] msg = "askCurrency" -> 6
      [] msg = "askNumberAdults" -> 7
      [] msg = "askNumberKids" -> 8
      [] msg = "askLuxuryLevel" -> 9
      [] msg \in {"summary", "summaryConfirm"} -> 10
      [] OTHER -> 0

\* messages that tell the user the planning is over
Closing == {"cancelled", "apology", "planAnother", "sessionError", "sessionExpired"}

\* the question on display in chat c after the calls o, given the one before
RECURSIVE AskedAfter(_, _, _)
AskedAfter(o, c, before) ==
    IF o = <<>> THEN before
    ELSE LET m == Head(o)
             now == IF m.chat # c \/ m.op \notin {"sendMessage", "editMessageText"} THEN before
                    ELSE IF QuestionOf(m.msg) # 0 THEN QuestionOf(m.msg)
                    ELSE IF m.msg \in Closing THEN 0
                    ELSE before
         IN  AskedAfter(Tail(o), c, now)

\* the texts that answer question q, and the buttons its keyboard offers
TypedFor(q) ==
    CASE q = 1 -> {Word, Blank}
      [] q = 2 -> {Number, Zero, Word}
      [] q \in {3, 4, 5, 6} -> {Word}
      [] q \in {7, 8} -> {Number}
      [] q = 9 -> {Number, Word}
      [] q = 10 -> {MixedYes, Word}
      [] OTHER -> {Word}

PrefixesFor(q) ==
    CASE q = 2 -> {"duration"}
      [] q = 3 -> {"month", "season"}
      [] q = 4 -> {"style"}
      [] q = 6 -> {"currency"}
      [] q = 7 -> {"adults"}
      [] q = 8 -> {"kids"}
      [] q = 9 -> {"luxury"}
      [] q = 10 -> {"confirm"}
      [] OTHER -> {}

\* keyboards of earlier questions, sessions and runs of the process stay in the
\* chat, and a user may type anything: MaxOffScript bounds how many events of a
\* behaviour are a text or a click that does not belong to the question on display
MaxOffScript == 1
MaxPending == 1
MaxGenerations == 2

Bounded(w) ==
    \A c \in Chats :
        /\ w.p[c].ask + w.p[c].currency + (IF w.p[c].plan THEN 1 ELSE 0) <= MaxPending
        /\ Len(w.g[c]) <= MaxGenerations

NoData == Button("", <<>>)

Event(kind, c, text, data, ok, idx) ==
    [kind |-> kind, chat |-> c, text |-> text, data |-> data, ok |-> ok, idx |-> idx,
     step |-> 0]

\* the step the handler of an answer or a click found the chat's session at
\* ("Processing message for step ..."), 0 when it found none
Processing(event, c) ==
    [event EXCEPT !.step = IF c \in DOMAIN userSessions THEN userSessions[c].step ELSE 0]

Commit(w, event) ==
    /\ Bounded(w)
    /\ userSessions' = w.s
    /\ pending' = w.p
    /\ gens' = w.g
    /\ out' = w.o
    /\ last' = event
    /\ asked' = [c \in Chats |-> AskedAfter(w.o, c, asked[c])]
    /\ UNCHANGED <<replyVars, linkVars, process>>

Script(onScript) ==
    IF onScript THEN UNCHANGED offScript
    ELSE offScript < MaxOffScript /\ offScript' = offScript + 1

-----------------------------------------------------------------------------
(* The state machine *)

Init ==
    /\ userSessions = [c \in {} |-> NewSession(c)]
    /\ pending = [c \in Chats |-> NoPending]
    /\ gens = [c \in Chats |-> <<>>]
    /\ out = <<>>
    /\ last = Event("init", "", <<>>, NoData, TRUE, 0)
    /\ asked = [c \in Chats |-> 0]
    /\ offScript = 0
    /\ NoReply
    /\ NoLinks
    /\ Started

\* a text message arrives
OnText(c, text) ==
    /\ Script(gens[c] = <<>> /\ text \in Commands \cup TypedFor(asked[c]))
    /\ Commit(onTextMessage(World, c, text),
              IF startsWith(text, <<"/">>) THEN Event("text", c, text, NoData, TRUE, 0)
              ELSE Processing(Event("text", c, text, NoData, TRUE, 0), c))

\* a button click arrives
OnCallbackQuery(c, data) ==
    /\ Script(gens[c] = <<>> /\ data.prefix \in PrefixesFor(asked[c]))
    /\ Commit(callbackQueryHandler(World, c, data),
              Processing(Event("callback_query", c, <<>>, data, TRUE, 0), c))

pushMessageId(w, c) ==
    IF has(w, c) THEN [w EXCEPT !.s[c].messageIds = @ + 1] ELSE w

\* the send of a question is delivered: its .then pushes the message id to the
\* session the chat has by then. A send that is rejected has no handler in ask*
\* and runs no callback: it is a send that stays pending
AskSettled(c) ==
    /\ pending[c].ask > 0
    /\ UNCHANGED offScript
    /\ Commit(pushMessageId([World EXCEPT !.p[c].ask = @ - 1], c),
              Event("askSettled", c, <<>>, NoData, TRUE, 0))

\* the send of /plan's welcome settles: its .then pushes to newSession, which
\* pending[c].plan says is still the chat's session; its .catch only reports
PlanSettled(c, ok) ==
    /\ pending[c].plan
    /\ UNCHANGED offScript
    /\ LET w == [World EXCEPT !.p[c].plan = FALSE]
       IN  Commit(IF ok THEN pushMessageId(w, c) ELSE w,
                  Event("planSettled", c, <<>>, NoData, ok, 0))

\* the send of "Currency set to" is delivered: its .then asks for the adults
CurrencySetSettled(c) ==
    /\ pending[c].currency > 0
    /\ UNCHANGED offScript
    /\ Commit(askNumberAdults([World EXCEPT !.p[c].currency = @ - 1], c),
              Event("currencySetSettled", c, <<>>, NoData, TRUE, 0))

\* the await a generateItinerary call is suspended at settles
GenerationSettled(c, i, ok) ==
    /\ i \in 1..Len(gens[c])
    /\ UNCHANGED offScript
    /\ Commit(generateItineraryResume(World, c, i, ok),
              Event("generationSettled", c, <<>>, NoData, ok, i))

Next ==
    \E c \in Solo :
        \/ \E text \in Texts : OnText(c, text)
        \/ \E data \in Buttons : OnCallbackQuery(c, data)
        \/ AskSettled(c)
        \/ \E ok \in BOOLEAN : PlanSettled(c, ok)
        \/ CurrencySetSettled(c)
        \/ \E i \in 1..MaxGenerations, ok \in BOOLEAN : GenerationSettled(c, i, ok)

Spec == Init /\ [][Next]_vars

-----------------------------------------------------------------------------
(* Properties *)

\* the event the step handled: a text or a click of chat c
IsText(e, c) == e.kind = "text" /\ e.chat = c
IsClick(e, c) == e.kind = "callback_query" /\ e.chat = c

\* a text that is an answer: it has no command in it
IsAnswer(t) == t # <<>> /\ \A cmd \in Commands : ~includes(t, cmd)

\* YES in any letter case, spaces around it aside
IsYes(t) ==
    LET s == trim(t)
    IN  /\ Len(s) = 3
        /\ s[1] \in {"y", "Y"} /\ s[2] \in {"e", "E"} /\ s[3] \in {"s", "S"}

\* the messages the calls o put into the chat c, in order
RECURSIVE Messages(_, _)
Messages(o, c) ==
    IF o = <<>> THEN <<>>
    ELSE (IF Head(o).chat = c /\ Head(o).op \in {"sendMessage", "editMessageText"}
          THEN <<Head(o).msg>> ELSE <<>>) \o Messages(Tail(o), c)

\* how many of the calls o ask question q
Asks(o, q) ==
    Cardinality({i \in DOMAIN o : o[i].op = "sendMessage" /\ QuestionOf(o[i].msg) = q})

Requests(o) == Cardinality({i \in DOMAIN o : o[i].op = "fetch"})

\* the well-formed answers to question q: what the question asks for, typed, or
\* one of the buttons of its keyboard (for the styles, the Done button)
WellFormed(e, q) ==
    \/ /\ e.kind = "text"
       /\ IsAnswer(e.text)
       /\ IF q \in {2, 7, 8, 9} THEN e.text = Number ELSE e.text = Word
    \/ /\ e.kind = "callback_query"
       /\ e.data.prefix \in PrefixesFor(q)
       /\ e.data.prefix = "style" => e.data.value = <<"d","o","n","e">>

\* C1: at every question 1..9, a well-formed answer, typed or clicked, to the
\* question on display moves the step on by exactly one and has the next question
\* asked exactly once (the adults question, after a typed currency, once the
\* acknowledgement is delivered), and no other question
C1_AnswerAdvancesOnce ==
    [][\A c \in Chats : \A q \in 1..9 :
         ( /\ c \in DOMAIN userSessions
           /\ userSessions[c].step = q
           /\ asked[c] = q
           /\ last'.chat = c
           /\ WellFormed(last', q) )
         => /\ c \in DOMAIN userSessions'
            /\ userSessions'[c].step = q + 1
            /\ \A r \in 1..10 : r # q + 1 => Asks(out', r) = 0
            /\ \/ Asks(out', q + 1) = 1
               \/ Asks(out', q + 1) = 0 /\ pending'[c].currency = pending[c].currency + 1
      ]_vars

\* the numbers each numeric question accepts
InBound(q, n) ==
    CASE q = 2 -> n > 0 /\ n <= 100
      [] q = 7 -> n > 0 /\ n <= 20
      [] q = 8 -> n >= 0 /\ n <= 20
      [] q = 9 -> n >= 1 /\ n <= 5
      [] OTHER -> TRUE

Reprompts == {"invalidDuration", "invalidAdults", "invalidKids", "invalidLuxury",
              "askDuration", "askNumberAdults", "askNumberKids", "askLuxuryLevel"}

\* C2: at the duration, adults, kids and luxury questions a typed answer that is
\* no number, or a number outside the question's bound, leaves the session's step
\* and trip parameters as they were and prompts for the same question again
C2_InvalidNumberReprompts ==
    [][\A c \in Chats :
         ( /\ c \in DOMAIN userSessions
           /\ userSessions[c].step \in {2, 7, 8, 9}
           /\ IsText(last', c)
           /\ IsAnswer(last'.text)
           /\ trim(last'.text) # <<>>
           /\ LET n == parseInt(trim(last'.text))
              IN  isNaN(n) \/ ~InBound(userSessions[c].step, n.n) )
         => /\ c \in DOMAIN userSessions'
            /\ userSessions'[c].step = userSessions[c].step
            /\ userSessions'[c].tripData = userSessions[c].tripData
            /\ \E i \in DOMAIN out' : out'[i].op = "sendMessage" /\ out'[i].msg \in Reprompts
      ]_vars

\* C3: at step 10 a text that reads YES in any letter case, or a click on the Yes
\* button, starts an itinerary generation for the chat: a new generateItinerary
\* call, suspended at its first await, with the loading message sent
C3_YesStartsGeneration ==
    [][\A c \in Chats :
         ( /\ c \in DOMAIN userSessions
           /\ userSessions[c].step = 10
           /\ \/ IsText(last', c) /\ IsAnswer(last'.text) /\ IsYes(last'.text)
              \/ IsClick(last', c) /\ last'.data = Button("confirm", <<"y","e","s">>) )
         => /\ Len(gens'[c]) = Len(gens[c]) + 1
            /\ gens'[c][Len(gens'[c])].pc = "loading"
            /\ gens'[c][Len(gens'[c])].live
            /\ c \in DOMAIN userSessions'
            /\ \E i \in DOMAIN out' : out'[i] = [op |-> "sendMessage", chat |-> c, msg |-> "loading"]
      ]_vars

C3_Witness ==
    \E c \in Chats :
        /\ IsText(last, c) /\ last.text = MixedYes /\ last.step = 10
        /\ c \in DOMAIN userSessions
        /\ gens[c] # <<>> /\ gens[c][Len(gens[c])].pc = "loading"

\* C4: at step 10 any other answer, typed or the No button, cancels: the chat has
\* no session afterwards, the cancellation message is the only message put into
\* the chat, and no generation and no model request is started
C4_OtherAnswerCancels ==
    [][\A c \in Chats :
         ( /\ c \in DOMAIN userSessions
           /\ userSessions[c].step = 10
           /\ \/ IsText(last', c) /\ IsAnswer(last'.text) /\ ~IsYes(last'.text)
              \/ /\ IsClick(last', c) /\ last'.data.prefix = "confirm"
                 /\ last'.data.value # <<"y","e","s">> )
         => /\ c \notin DOMAIN userSessions'
            /\ Messages(out', c) = <<"cancelled">>
            /\ Requests(out') = 0
            /\ Len(gens'[c]) = Len(gens[c])
            /\ \A i \in 1..Len(gens[c]) :
                   /\ gens'[c][i].pc = gens[c][i].pc
                   /\ gens'[c][i].requests = gens[c][i].requests
      ]_vars

C4_Witness ==
    \E c \in Chats :
        /\ IsClick(last, c) /\ last.data = Button("confirm", <<"n","o">>) /\ last.step = 10
        /\ c \notin DOMAIN userSessions
        /\ Messages(out, c) = <<"cancelled">>

\* C5: when an await of generateItinerary rejects, the call ends there: the
\* apology is sent, the chat has no session afterwards, the call is gone and no
\* model request goes out; no call ever requests the model more than once
C5_FailureApologisesOnce ==
    [][\A c \in Chats :
         /\ \A i \in 1..Len(gens'[c]) : gens'[c][i].requests <= 1
         /\ ( last'.kind = "generationSettled" /\ last'.chat = c /\ ~last'.ok )
            => /\ Messages(out', c) = <<"apology">>
               /\ c \notin DOMAIN userSessions'
               /\ Requests(out') = 0
               /\ Len(gens'[c]) = Len(gens[c]) - 1
               /\ \A i \in 1..Len(gens'[c]) :
                      \E j \in 1..Len(gens[c]) :
                          /\ gens'[c][i].pc = gens[c][j].pc
                          /\ gens'[c][i].requests = gens[c][j].requests
      ]_vars

C5_Witness ==
    \E c \in Chats :
        /\ last.kind = "generationSettled" /\ last.chat = c /\ ~last.ok
        /\ Messages(out, c) = <<"apology">>
        /\ c \notin DOMAIN userSessions
        /\ gens[c] = <<>>

\* C6: while an itinerary generation of a chat is suspended at an await, no
\* message, command or click of that chat is handled
C6_NoEventDuringGeneration ==
    [][\A c \in Chats :
         gens[c] # <<>> => ~(IsText(last', c) \/ IsClick(last', c))
      ]_vars

\* C7: a chat has one session at most, and right after /plan it is a new one:
\* step 1, trip parameters as initialised, no message ids, whatever was there
C7_PlanStartsAfresh ==
    [][\A c \in Chats :
         /\ DOMAIN userSessions' \subseteq Chats
         /\ ( IsText(last', c) /\ last'.text = <<"/","p","l","a","n">> )
            => /\ c \in DOMAIN userSessions'
               /\ userSessions'[c].step = 1
               /\ userSessions'[c].tripData = NewTripData
               /\ userSessions'[c].messageIds = 0
      ]_vars

C7_Witness ==
    \E c \in Chats :
        /\ IsText(last, c) /\ last.text = <<"/","p","l","a","n">>
        /\ c \in DOMAIN userSessions /\ userSessions[c] = NewSession(c)
        /\ \E i \in 1..Len(gens[c]) :
               ~gens[c][i].live /\ gens[c][i].held.destination # <<>>

\* C8: after /start the chat has a session at step 1 and the destination
\* question has been asked
C8_StartStartsPlanning ==
    [][\A c \in Chats :
         ( IsText(last', c) /\ last'.text = <<"/","s","t","a","r","t">> )
         => /\ c \in DOMAIN userSessions'
            /\ userSessions'[c].step = 1
            /\ Asks(out', 1) = 1
      ]_vars

\* C9: after /cancel the chat has no session, whatever it had; and a text that
\* is no command, from a chat without a session, is answered with the prompt to
\* use /plan and stored nowhere
C9_CancelEndsSession ==
    [][\A c \in Chats :
         /\ ( IsText(last', c) /\ last'.text = <<"/","c","a","n","c","e","l">> )
            => c \notin DOMAIN userSessions'
         /\ ( c \notin DOMAIN userSessions /\ IsText(last', c) /\ IsAnswer(last'.text) )
            => /\ Messages(out', c) = <<"usePlan">>
               /\ userSessions' = userSessions
               /\ gens' = gens
      ]_vars

C9_Witness ==
    \E c \in Chats :
        /\ IsText(last, c) /\ last.text = <<"/","c","a","n","c","e","l">>
        /\ c \notin DOMAIN userSessions
        /\ pending[c].ask > 0

\* C10: once a session is at step 10, its generation running or not, no message
\* and no click changes a field of its trip parameters
C10_TripDataFrozenAtConfirmation ==
    [][\A c \in Chats :
         ( /\ c \in DOMAIN userSessions
           /\ userSessions[c].step = 10
           /\ IsClick(last', c) \/ (IsText(last', c) /\ IsAnswer(last'.text))
           /\ c \in DOMAIN userSessions' )
         => userSessions'[c].tripData = userSessions[c].tripData
      ]_vars

-----------------------------------------------------------------------------
(* The vacation-style question on its own: the chat has answered the first
   three questions, and clicks the buttons of the style keyboard *)

City == <<"C","i","t","y">>
Cultural == <<"C","u","l","t","u","r","a","l">>
RoadTrips == <<"R","o","a","d","T","r","i","p","s">>
Backpackers == <<"B","a","c","k","p","a","c","k","e","r","s">>
Done == <<"d","o","n","e">>

StyleButtons ==
    {Button("style", v) : v \in {City, Cultural, RoadTrips, Backpackers, Done}}

\* after /plan, "Rome", "2" and "Rome", every send delivered
AwaitingVacationStyle ==
    [step |-> 4,
     tripData |-> [NewTripData EXCEPT !.destination = Word,
                                      !.suggestDestination = "false",
                                      !.duration = JoinDays(Num(2)),
                                      !.timeOfYear = Word],
     messageIds |-> 4,
     userId |-> "A"]

InitStyle ==
    /\ userSessions = [c \in {"A"} |-> AwaitingVacationStyle]
    /\ pending = [c \in Chats |-> NoPending]
    /\ gens = [c \in Chats |-> <<>>]
    /\ out = <<>>
    /\ last = Event("askSettled", "A", <<>>, NoData, TRUE, 0)
    /\ asked = [c \in Chats |-> IF c = "A" THEN 4 ELSE 0]
    /\ offScript = 0
    /\ NoReply
    /\ NoLinks
    /\ Started

NextStyle ==
    \E c \in Solo :
        \/ \E data \in StyleButtons : OnCallbackQuery(c, data)
        \/ AskSettled(c)

SpecStyle == InitStyle /\ [][NextStyle]_vars

\* the styles of a list, and the list without the style x
Range(seq) == {seq[i] : i \in DOMAIN seq}
Without(seq, x) == SelectSeq(seq, LAMBDA s : s # x)

\* C11: a click on a style that is not selected appends it, a click on a
\* selected one removes it and keeps the others in their order; neither changes
\* the step, and clicking the style just added once more gives back the list,
\* and the whole session, as they were before the two clicks
C11_StyleToggles ==
    [][\A c \in Chats :
         ( /\ c \in DOMAIN userSessions
           /\ IsClick(last', c)
           /\ last'.data.prefix = "style" /\ last'.data.value # Done )
         => LET style == last'.data.value
                before == userSessions[c].tripData.vacationStyle
                after == userSessions'[c].tripData.vacationStyle
                again == styleToggle([s |-> userSessions', p |-> pending',
                                      g |-> gens', o |-> <<>>], c, style)
            IN  /\ userSessions'[c].step = userSessions[c].step
                /\ style \notin Range(before)
                       => /\ after = Append(before, style)
                          /\ again.s[c] = userSessions[c]
                /\ style \in Range(before)
                       => /\ after = Without(before, style)
                          /\ Len(after) = Len(before) - 1
      ]_vars

\* a click has removed a style from between two others
C11_Witness ==
    \E c \in DOMAIN userSessions :
        /\ IsClick(last, c) /\ last.data = Button("style", Cultural)
        /\ userSessions[c].tripData.vacationStyle = <<City, RoadTrips>>
        /\ userSessions[c].step = 4

\* C12: Done with no style selected leaves exactly the default style, Done with
\* styles selected leaves them as they are; either way the session is at step 5
\* and the departure-city question is asked, once
C12_DoneFreezesStyles ==
    [][\A c \in Chats :
         ( /\ c \in DOMAIN userSessions
           /\ IsClick(last', c)
           /\ last'.data = Button("style", Done) )
         => LET before == userSessions[c].tripData.vacationStyle
                after == userSessions'[c].tripData.vacationStyle
            IN  /\ before = <<>> => after = << <<"G","e","n","e","r","a","l"," ","T","o","u","r","i","s","m">> >>
                /\ before # <<>> => after = before
                /\ userSessions'[c].step = 5
                /\ Asks(out', 5) = 1
                /\ \A q \in 1..10 : q # 5 => Asks(out', q) = 0
      ]_vars

C12_Witness ==
    \E c \in DOMAIN userSessions :
        /\ IsClick(last, c) /\ last.data = Button("style", Done) /\ last.step = 4
        /\ userSessions[c].tripData.vacationStyle = <<GeneralTourism>>
        /\ userSessions[c].step = 5
        /\ asked[c] = 5

-----------------------------------------------------------------------------
(* parseResponse on its own: a reply of the model arrives and is parsed *)

\* JSON.stringify of a value made of objects, arrays, strings and integers
RECURSIVE stringify(_)
RECURSIVE stringifyMembers(_)
RECURSIVE stringifyItems(_)
stringifyItems(members) ==
    IF members = <<>> THEN <<>>
    ELSE stringify(Head(members).value)
         \o (IF Len(members) > 1 THEN <<",">> ELSE <<>>) \o stringifyItems(Tail(members))

stringifyMembers(members) ==
    IF members = <<>> THEN <<>>
    ELSE <<"\"">> \o Head(members).key \o <<"\"", ":">> \o stringify(Head(members).value)
         \o (IF Len(members) > 1 THEN <<",">> ELSE <<>>) \o stringifyMembers(Tail(members))

stringify(v) ==
    CASE v.kind = "string" -> <<"\"">> \o v.s \o <<"\"">>
      [] v.kind = "number" -> numberToString(Num(v.n))
      [] v.kind = "array" -> <<"[">> \o stringifyItems(v.members) \o <<"]">>
      [] OTHER -> <<"{">> \o stringifyMembers(v.members) \o <<"}">>

\* the objects a reply holds
Itineraries ==
    { JObject(<<>>),
      JObject(<< [key |-> <<"a">>, value |-> JString(<<"b"," ","c">>)] >>),
      JObject(<< [key |-> <<"a">>, value |-> JNumber(10)],
                 [key |-> <<"b">>, value |-> JNumber(0 - 2)] >>),
      JObject(<< [key |-> <<"a">>, value |-> JObject(<< [key |-> <<"b">>, value |-> JString(<<>>)] >>)],
                 [key |-> <<"c">>, value |-> JString(<<"d">>)] >>) }

\* texts in braces that are no JSON
Malformed ==
    { <<"{","a","}">>, <<"{","\"","a","\"",":","}">>, <<"{","\"","a","\"",":","0","1","}">>,
      <<"{","\"","a","\"",":","\"","b","\"",",","}">>, <<"{","\"","a","\"",":","\"","b","}">> }

\* what the model writes around the object
ProseBefore == { <<>>, <<"H","e","r","e",":"," ">>, <<"{","p","l","a","n","}"," ">>, <<"}"," ">> }
ProseAfter == { <<>>, <<" ","D","o","n","e">>, <<" ",":","}">>, <<" ","{">> }

Responses ==
    { p \o j \o q : p \in ProseBefore, q \in ProseAfter,
                    j \in {stringify(v) : v \in Itineraries} \cup Malformed \cup {<<>>} }

InitParse ==
    /\ userSessions = [c \in {} |-> NewSession(c)]
    /\ pending = [c \in Chats |-> NoPending]
    /\ gens = [c \in Chats |-> <<>>]
    /\ out = <<>>
    /\ last = Event("init", "", <<>>, NoData, TRUE, 0)
    /\ asked = [c \in Chats |-> 0]
    /\ offScript = 0
    /\ response \in Responses
    /\ itinerary = NotParsed
    /\ NoLinks
    /\ Started

\* const itinerary = parseResponse(response)
ParseResponse ==
    /\ itinerary = NotParsed
    /\ itinerary' = parseResponse(response)
    /\ UNCHANGED <<botVars, response, linkVars, process>>

SpecParse == InitParse /\ [][ParseResponse]_vars

Braces == {"{", "}"}
HasBrace(t) == \E i \in DOMAIN t : t[i] \in Braces

\* a { with a } somewhere after it
JsonShaped(t) == \E i, j \in DOMAIN t : i < j /\ t[i] = "{" /\ t[j] = "}"

\* C13: parseResponse throws on no reply: one that holds no { ... } gives the
\* first fallback object, one whose { ... } is no JSON gives the second, and the
\* generation goes on with that object and not to its catch block
C13_FallbackInsteadOfThrow ==
    itinerary # NotParsed =>
        /\ ~itinerary.threw
        /\ ~JsonShaped(response) => itinerary.value = NoJsonFallback
        /\ (\E p \in ProseBefore, q \in ProseAfter, j \in Malformed :
               ~HasBrace(p) /\ ~HasBrace(q) /\ response = p \o j \o q)
           => itinerary.value = ParseErrorFallback

C13_Witness ==
    /\ response = <<"H","e","r","e",":"," ","{","\"","a","\"",":","}"," ","D","o","n","e">>
    /\ itinerary = Return(ParseErrorFallback)

\* C14: from a reply made of prose, one JSON object and prose, parseResponse
\* returns that object
C14_ObjectRecovered ==
    \A p \in ProseBefore, q \in ProseAfter, v \in Itineraries :
        (response = p \o stringify(v) \o q /\ itinerary # NotParsed)
        => itinerary = Return(v)

-----------------------------------------------------------------------------

\* the replies that report an error to the user
ErrorMessages == {"invalidDuration", "invalidAdults", "invalidKids", "apology", "sessionError"}

\* C15: whenever a step reports an error to a chat (an answer that fails its
\* validation, a failed generation, a session at an unknown step), the chat has
\* no session afterwards
C15_ErrorsEndSession ==
    [][\A c \in Chats :
         (\E i \in DOMAIN out' : out'[i].chat = c /\ out'[i].op = "sendMessage"
                                 /\ out'[i].msg \in ErrorMessages)
         => c \notin DOMAIN userSessions'
      ]_vars

-----------------------------------------------------------------------------
(* Two chats talking at once: each starts, answers, jumps to the confirmation
   with a button of the luxury keyboard, confirms or cancels *)

TwoTexts == { <<"/","p","l","a","n">>, <<"/","c","a","n","c","e","l">>, Word, MixedYes }
TwoButtons == { Button("luxury", <<"2">>), Button("confirm", <<"n","o">>) }

NextTwo ==
    \E c \in Chats :
        \/ \E text \in TwoTexts : OnText(c, text)
        \/ \E data \in TwoButtons : OnCallbackQuery(c, data)
        \/ AskSettled(c)
        \/ \E ok \in BOOLEAN : PlanSettled(c, ok)
        \/ \E i \in 1..MaxGenerations, ok \in BOOLEAN : GenerationSettled(c, i, ok)

SpecTwo == Init /\ [][NextTwo]_vars

\* C16: a step taken for one chat, whatever it is, leaves the session of every
\* other chat as it was: there or not, and unchanged when there
C16_OtherChatUntouched ==
    [][\A c \in Chats :
         last'.chat # c
         => /\ (c \in DOMAIN userSessions') = (c \in DOMAIN userSessions)
            /\ c \in DOMAIN userSessions => userSessions'[c] = userSessions[c]
      ]_vars

\* a generation of chat A ends while chat B is in the middle of its questions
C16_Witness ==
    /\ last.kind = "generationSettled" /\ last.chat = "A"
    /\ "A" \notin DOMAIN userSessions
    /\ "B" \in DOMAIN userSessions /\ userSessions["B"].step = 2

-----------------------------------------------------------------------------
(* The two links of one generation: the trip data of a session, the clock   *)
(* and the time zone of the host are the inputs                             *)

Bangkok == <<"B","a","n","g","k","o","k">>
Nowhereville == <<"N","o","w","h","e","r","e","v","i","l","l","e">>
FiveDays == <<"5"," ","d","a","y","s">>
July == <<"J","u","l","y">>
Winter == <<"W","i","n","t","e","r">>
December == <<"D","e","c","e","m","b","e","r">>

Destinations == {<<>>, Bangkok, Nowhereville, Word}
Durations == {<<>>, FiveDays, JoinDays(Num(2))}
TimesOfYear == {<<>>, July, December, Winter, Word}

LinkTripData ==
    { [NewTripData EXCEPT !.destination = destination, !.duration = duration,
                          !.timeOfYear = timeOfYear, !.numberAdults = numberAdults,
                          !.numberKids = numberKids, !.luxuryLevel = luxuryLevel] :
        destination \in Destinations, duration \in Durations,
        timeOfYear \in TimesOfYear, numberAdults \in {0, 2}, numberKids \in {0, 1},
        luxuryLevel \in {Undefined, Num(4)} }

\* the days and hours of the host's local clock, and the hours it is ahead
\* of UTC
Days ==
    { [y |-> 2026, m |-> 1, d |-> 15], [y |-> 2026, m |-> 7, d |-> 14],
      [y |-> 2026, m |-> 7, d |-> 15], [y |-> 2026, m |-> 7, d |-> 16],
      [y |-> 2026, m |-> 12, d |-> 20], [y |-> 2028, m |-> 2, d |-> 1] }
Hours == {0, 12, 23}
TimezoneOffsets == {0 - 5, 0, 2}

Clocks ==
    { [now |-> Date(DaysFromCivil(day.y, day.m, day.d) * 24 + hour - timezoneOffset),
       timezoneOffset |-> timezoneOffset] :
        day \in Days, hour \in Hours, timezoneOffset \in TimezoneOffsets }

InitLink ==
    /\ userSessions = [c \in {} |-> NewSession(c)]
    /\ pending = [c \in Chats |-> NoPending]
    /\ gens = [c \in Chats |-> <<>>]
    /\ out = <<>>
    /\ last = Event("init", "", <<>>, NoData, TRUE, 0)
    /\ asked = [c \in Chats |-> 0]
    /\ offScript = 0
    /\ NoReply
    /\ linkTripData \in LinkTripData
    /\ clock \in Clocks
    /\ agodaLink = NotBuilt
    /\ flightLink = NotBuilt
    /\ Started

\* const agodaLink = safeAgodaLinkBuilder(tripData)
AgodaLink ==
    /\ agodaLink = NotBuilt
    /\ agodaLink' = safeAgodaLinkBuilder(PrepareTripData(linkTripData),
                                         clock.now, clock.timezoneOffset)
    /\ UNCHANGED <<botVars, replyVars, linkTripData, clock, flightLink, process>>

\* const flightLink = buildAgodaFlightLink(session.tripData)
FlightLink ==
    /\ agodaLink # NotBuilt
    /\ flightLink = NotBuilt
    /\ flightLink' = buildAgodaFlightLink(linkTripData, clock.now, clock.timezoneOffset)
    /\ UNCHANGED <<botVars, replyVars, linkTripData, clock, agodaLink, process>>

NextLink == AgodaLink \/ FlightLink

SpecLink == InitLink /\ [][NextLink]_vars

\* what a link says: the value of a query parameter, and the date in one
HasParam(link, name) == \E i \in DOMAIN link.params : link.params[i].name = name
Param(link, name) ==
    link.params[CHOOSE i \in DOMAIN link.params : link.params[i].name = name].value
DateParam(link, name) ==
    [y |-> parseDigits(SubSeq(Param(link, name), 1, 4), 0),
     m |-> parseDigits(SubSeq(Param(link, name), 6, 7), 0),
     d |-> parseDigits(SubSeq(Param(link, name), 9, 10), 0)]
DayOf(date) == DaysFromCivil(date.y, date.m, date.d)

HotelSearch == "https://www.agoda.com/partners/partnersearch.aspx"
IsHotelSearch(link) == ~link.threw /\ link.url = HotelSearch

\* the destination is no key of the city table, contains none and is
\* contained in none
NoCityMatch(destination) ==
    \A i \in 1..Len(agodaCityIds) :
        /\ agodaCityIds[i].city # toLowerCase(destination)
        /\ ~includes(toLowerCase(destination), agodaCityIds[i].city)
        /\ ~includes(agodaCityIds[i].city, toLowerCase(destination))

\* C17: for a destination that is no key of the city table and neither
\* contains a key nor is contained in one (Nowhereville), the hotel link is
\* built without throwing and carries no city parameter.
C17_UnknownCityOmitted ==
    (agodaLink # NotBuilt /\ linkTripData.duration # <<>>
        /\ NoCityMatch(PrepareTripData(linkTripData).destination))
    => (IsHotelSearch(agodaLink) /\ ~HasParam(agodaLink, "city"))

\* the day of the host's clock, as toISOString would write it
Today == clock.now.t \div 24

IsBangkokInJuly ==
    /\ linkTripData.destination = Bangkok
    /\ linkTripData.duration = FiveDays
    /\ linkTripData.timeOfYear = July
    /\ linkTripData.numberAdults = 2
    /\ linkTripData.numberKids = 0
    /\ linkTripData.luxuryLevel = Num(4)

\* C18: for Bangkok, 5 days, July, 2 adults, no kids and luxury level 4 the
\* hotel link carries city=9395, adults=2 and hotelStarRating=4, and its
\* check-in date lies in July, in the first July whose 15th is not over yet.
C18_BangkokInJuly ==
    (IsBangkokInJuly /\ agodaLink # NotBuilt)
    => /\ IsHotelSearch(agodaLink)
       /\ HasParam(agodaLink, "city") /\ Param(agodaLink, "city") = <<"9","3","9","5">>
       /\ HasParam(agodaLink, "adults") /\ Param(agodaLink, "adults") = <<"2">>
       /\ HasParam(agodaLink, "hotelStarRating")
       /\ Param(agodaLink, "hotelStarRating") = <<"4">>
       /\ ~HasParam(agodaLink, "children")
       /\ HasParam(agodaLink, "checkIn")
       /\ DateParam(agodaLink, "checkIn").m = 7
       /\ DayOf(DateParam(agodaLink, "checkIn")) >= Today
       /\ DayOf(DateParam(agodaLink, "checkIn")) < Today + 366

\* the link is built on 16 July, when this year's 15 July is over
C18_Witness ==
    /\ IsBangkokInJuly /\ IsHotelSearch(agodaLink)
    /\ getFullYear(clock.now, clock.timezoneOffset) = 2026
    /\ DateParam(agodaLink, "checkIn").y = 2027
    /\ DateParam(agodaLink, "checkIn").m = 7

\* the day and the year of the host's local clock
LocalToday == LocalDay(clock.now, clock.timezoneOffset)
CurrentYear == CivilFromDays(LocalToday).y

\* the date a link gives is the 15th of the month the time of year resolves
\* to, this year's while that day is still to come, next year's once it is
\* over, and no day before today
IsThe15th(link, name, timeOfYear) ==
    LET date == DateParam(link, name)
        month == targetMonth(toLowerCase(timeOfYear))
        thisYear == DaysFromCivil(CurrentYear, month, 15)
    IN  /\ date.d = 15
        /\ date.m = month
        /\ date.y \in {CurrentYear, CurrentYear + 1}
        /\ thisYear > LocalToday => date.y = CurrentYear
        /\ thisYear < LocalToday => date.y = CurrentYear + 1
        /\ DayOf(date) >= LocalToday

\* C19: with a time of year given, the check-in date of the hotel link and
\* the departure date of the flight link are the 15th of the resolved month,
\* of this year or, when that day is past, of the next; never a day before
\* the current date.
C19_CheckInIsThe15th ==
    /\ IsHotelSearch(agodaLink)
        => IsThe15th(agodaLink, "checkIn", PrepareTripData(linkTripData).timeOfYear)
    /\ (flightLink # NotBuilt /\ ~flightLink.threw /\ linkTripData.timeOfYear # <<>>)
        => IsThe15th(flightLink, "departDate", linkTripData.timeOfYear)

\* the days of the stay: the number the duration starts with, 5 when it
\* starts with none
StayOf(duration) ==
    IF isNaN(parseInt(split(duration, " ")[1])) THEN 5
    ELSE parseInt(split(duration, " ")[1]).n

Spans(link, from, to, duration) ==
    /\ HasParam(link, from) /\ HasParam(link, to)
    /\ DayOf(DateParam(link, to)) - DayOf(DateParam(link, from)) = StayOf(duration)

\* C20: the check-out date of the hotel link and the return date of the
\* flight link are the check-in or departure date plus the days parsed from
\* the duration, plus 5 days when the duration parses as no number (the
\* 'unknown' sentinel); no link fails to be built for such a duration.
C20_CheckOutAfterStay ==
    /\ agodaLink # NotBuilt
        => /\ IsHotelSearch(agodaLink)
           /\ Spans(agodaLink, "checkIn", "checkOut", PrepareTripData(linkTripData).duration)
    /\ flightLink # NotBuilt
        => /\ ~flightLink.threw
           /\ Spans(flightLink, "departDate", "returnDate", linkTripData.duration)

-----------------------------------------------------------------------------
(* The start of the process: the top-level code of telegram-bot.ts up to the *)
(* registration of the handlers, then the bot at work for two chats          *)

EnvVars == {Unset, EnvVar(""), EnvVar("token")}

InitStartup ==
    /\ userSessions = [c \in {} |-> NewSession(c)]
    /\ pending = [c \in Chats |-> NoPending]
    /\ gens = [c \in Chats |-> <<>>]
    /\ out = <<>>
    /\ last = Event("init", "", <<>>, NoData, TRUE, 0)
    /\ asked = [c \in Chats |-> 0]
    /\ offScript = 0
    /\ NoReply
    /\ NoLinks
    /\ \E TELEGRAM_TOKEN \in EnvVars, OPENAI_API_KEY \in {Unset, EnvVar(""), EnvVar("key")} :
          process = Process("TELEGRAM_TOKEN", TELEGRAM_TOKEN, OPENAI_API_KEY)

StartupStep(pc, p) ==
    /\ process.pc = pc
    /\ process' = p
    /\ UNCHANGED <<botVars, replyVars, linkVars>>

CheckTelegramToken == StartupStep("TELEGRAM_TOKEN", checkTelegramToken(process))
CheckOpenAIKey == StartupStep("OPENAI_API_KEY", checkOpenAIKey(process))
NewTelegramBot == StartupStep("bot", newTelegramBot(process))
\* userSessions = new Map(), bot.onText(...), bot.on(...): from here on the
\* platform's events reach the handlers
RegisterHandlers == StartupStep("handlers", [process EXCEPT !.pc = "running"])

NextStartup ==
    \/ CheckTelegramToken
    \/ CheckOpenAIKey
    \/ NewTelegramBot
    \/ RegisterHandlers
    \/ (process.pc = "running" /\ NextTwo)

SpecStartup == InitStartup /\ [][NextStartup]_vars

\* C22: with the chat-platform token or the model API key missing, the
\* process exits with code 1 before the bot instance is created: it handles
\* no event, issues no call and has no session, then or later.
C22_MissingConfigurationExits ==
    (Not(process.env.TELEGRAM_TOKEN) \/ Not(process.env.OPENAI_API_KEY))
    => /\ ~process.bot
       /\ process.pc \in {"TELEGRAM_TOKEN", "OPENAI_API_KEY", "exited"}
       /\ process.pc = "exited" => process.exitCode = 1
       /\ DOMAIN userSessions = {}
       /\ last.kind = "init" /\ out = <<>>

\* the token is set, the key is the empty string, and the process has exited
C22_Witness ==
    /\ process.env.TELEGRAM_TOKEN = EnvVar("token")
    /\ process.env.OPENAI_API_KEY = EnvVar("")
    /\ process.pc = "exited" /\ process.exitCode = 1

\* C23: the step of every session is one of 1..10, so it names one awaiting
\* state, and the message handler never comes to its branch for an unknown
\* step (the 'something went wrong with your session' reply).
C23_StepNamesOneState ==
    /\ \A c \in DOMAIN userSessions : userSessions[c].step \in 1..10
    /\ \A i \in DOMAIN out : out[i].msg # "sessionError"

\* a star button clicked at the first question has set the step to 10
C23_Witness ==
    \E c \in DOMAIN userSessions :
        /\ IsClick(last, c) /\ last.data.prefix = "luxury" /\ last.step = 1
        /\ userSessions[c].step = 10

-----------------------------------------------------------------------------
(* Two conversations that answer each question on display once: chat A     *)
(* types every answer, chat B clicks a button wherever the question has a  *)
(* keyboard                                                                *)

Typist == "A"
Clicker == "B"

\* the question on display waits for its answer
Unanswered(c) ==
    /\ c \in DOMAIN userSessions
    /\ asked[c] \in 1..9
    /\ pending[c].currency = 0

\* the typed answer to question q: a number where one is asked for
Typed(q) == IF q \in {2, 7, 8, 9} THEN Number ELSE Word

PlanCommand(c) ==
    /\ c \notin DOMAIN userSessions /\ asked[c] = 0
    /\ OnText(c, <<"/","p","l","a","n">>)

TypedAnswer(c) ==
    /\ Unanswered(c)
    /\ c = Clicker => PrefixesFor(asked[c]) = {}
    /\ OnText(c, Typed(asked[c]))

ClickedAnswer(c, data) ==
    /\ c = Clicker
    /\ Unanswered(c)
    /\ data.prefix \in PrefixesFor(asked[c])
    /\ OnCallbackQuery(c, data)

NextOrder ==
    \E c \in Chats :
        \/ PlanCommand(c)
        \/ TypedAnswer(c)
        \/ \E data \in Buttons : ClickedAnswer(c, data)
        \/ AskSettled(c)
        \/ \E ok \in BOOLEAN : PlanSettled(c, ok)
        \/ CurrencySetSettled(c)

SpecOrder == Init /\ [][NextOrder]_vars

\* the questions the calls o put to chat c, in the order of the calls
RECURSIVE Questions(_, _)
Questions(o, c) ==
    IF o = <<>> THEN <<>>
    ELSE (IF Head(o).chat = c /\ Head(o).op = "sendMessage" /\ QuestionOf(Head(o).msg) # 0
          THEN <<QuestionOf(Head(o).msg)>> ELSE <<>>) \o Questions(Tail(o), c)

\* C24: in a session answered by text only, and in one answered by the
\* buttons wherever a question offers them, every step puts at most one
\* question to the chat, and it is the one after the question on display:
\* destination, duration, time of year, style, departure city, currency,
\* adults, kids, hotel rating, each once, then the summary, shown with the
\* session at step 10.
C24_QuestionsInOrder ==
    [][\A c \in Chats :
         /\ Questions(out', c) \in {<<>>, <<asked[c] + 1>>}
         /\ asked'[c] = IF Questions(out', c) = <<>> THEN asked[c] ELSE asked[c] + 1
         /\ (last'.chat = c /\ last'.kind \in {"text", "callback_query"}
                /\ ~(last'.kind = "text" /\ asked[c] = 6)
                /\ ~(last'.kind = "callback_query" /\ last'.data.value = City))
              => Questions(out', c) = <<asked[c] + 1>>
         /\ (last'.chat = c /\ last'.kind = "currencySetSettled")
              => Questions(out', c) = <<7>>
         /\ asked'[c] = 10 => (c \in DOMAIN userSessions' /\ userSessions'[c].step = 10)
      ]_vars

\* the clicker has come to the summary by the star button, from step 6
C24_Witness ==
    /\ asked[Clicker] = 10 /\ IsClick(last, Clicker) /\ last.step = 6
    /\ userSessions[Clicker].step = 10
    /\ userSessions[Clicker].messageIds = 9

\* C25: while question N (1-9) is the one on display in a session, the
\* session's step is N, so that a typed reply is stored as the answer to the
\* question shown; also after a question was answered with a button.
C25_StepIsQuestionOnDisplay ==
    \A c \in DOMAIN userSessions :
        (asked[c] \in 1..9 /\ pending[c].currency = 0) => userSessions[c].step = asked[c]

\* the questions whose answer is a text or a positive number have their answer
\* in the trip data (no children, no style chosen and a hotel rating that is
\* not specified are answers too)
Complete(td) ==
    /\ td.destination # <<>> /\ td.duration # <<>> /\ td.timeOfYear # <<>>
    /\ td.departureCity # <<>> /\ td.currency # <<>>
    /\ td.numberAdults # 0

\* C26: a generation starts for a chat only when every question of the chat's
\* session has been answered, whatever messages and clicks came before, so the
\* generator gets a complete set of trip parameters.
C26_GenerationAfterAllAnswers ==
    [][\A c \in Chats :
         Len(gens'[c]) > Len(gens[c])
            => (c \in DOMAIN userSessions' /\ Complete(userSessions'[c].tripData))
      ]_vars

\* C27: a generation that finishes, with the itinerary or with an error, deletes
\* the session that requested it and no other: a session that a /plan command
\* created while the generation was in flight is still there afterwards, as
\* it was.
C27_GenerationDeletesItsOwnSession ==
    [][\A c \in Chats :
         (/\ last'.kind = "generationSettled" /\ last'.chat = c
          /\ Len(gens'[c]) < Len(gens[c])
          /\ ~gens[c][last'.idx].live
          /\ c \in DOMAIN userSessions)
            => (c \in DOMAIN userSessions' /\ userSessions'[c] = userSessions[c])
      ]_vars

\* the generateItinerary calls in flight that work for the session the chat has
InFlight(c) == {i \in DOMAIN gens[c] : gens[c][i].live}

\* C28: a session has at most one generation in flight, however often the user
\* confirms before the first one finishes, so that one model request and one
\* itinerary message come of it.
C28_OneGenerationPerSession ==
    \A c \in Chats : Cardinality(InFlight(c)) <= 1

-----------------------------------------------------------------------------
(* One conversation that is answered by text, confirmed at most once at a  *)
(* time, and cancelled at any moment, also while its generation is in      *)
(* flight: here a chat without a session is a chat whose planning was      *)
(* cancelled or has ended, and no session was started since                *)

\* the answer to the summary: YES, unless a generation is in flight already,
\* or anything else
Confirmation(c, text) ==
    /\ c \in DOMAIN userSessions /\ asked[c] = 10
    /\ text = MixedYes => gens[c] = <<>>
    /\ OnText(c, text)

CancelCommand(c) ==
    /\ c \in DOMAIN userSessions
    /\ OnText(c, <<"/","c","a","n","c","e","l">>)

NextCancel ==
    \E c \in Solo :
        \/ PlanCommand(c)
        \/ TypedAnswer(c)
        \/ \E text \in {MixedYes, Word} : Confirmation(c, text)
        \/ CancelCommand(c)
        \/ AskSettled(c)
        \/ \E ok \in BOOLEAN : PlanSettled(c, ok)
        \/ CurrencySetSettled(c)
        \/ \E i \in 1..MaxGenerations, ok \in BOOLEAN : GenerationSettled(c, i, ok)

SpecCancel == Init /\ [][NextCancel]_vars

\* C29: once the planning of a chat is cancelled, by /cancel or by an answer
\* to the summary that is not YES, the chat gets no itinerary message until a
\* new session is started and confirmed, also when a generation was in flight
\* at the cancellation.
C29_NoItineraryAfterCancel ==
    [][\A c \in Chats :
         c \notin DOMAIN userSessions
            => \A i \in DOMAIN out' : ~(out'[i].chat = c /\ out'[i].msg = "itinerary")
      ]_vars

\* C30: while a chat keeps its session (no /plan replaces it), no message and no
\* click takes the session's step back to an earlier question.
C30_StepNeverDecreases ==
    [][\A c \in DOMAIN userSessions :
         (c \in DOMAIN userSessions'
             /\ ~(IsText(last', c) /\ last'.text = <<"/","p","l","a","n">>))
            => userSessions'[c].step >= userSessions[c].step
      ]_vars

\* C31: the hotel link and the flight link of one generation are built from
\* the same trip parameters: where both carry their dates, the hotel check-in
\* is the flight's departure date and the check-out its return date, whatever
\* fields the session has set.
C31_LinksAgreeOnDates ==
    (/\ agodaLink # NotBuilt /\ flightLink # NotBuilt
     /\ HasParam(agodaLink, "checkIn") /\ HasParam(flightLink, "departDate"))
        => /\ Param(agodaLink, "checkIn") = Param(flightLink, "departDate")
           /\ Param(agodaLink, "checkOut") = Param(flightLink, "returnDate")

\* C32: once Done was clicked on the style question (the session has come to
\* step 5 by it), the selected styles are frozen: no later click or message of
\* the session changes them.
C32_StylesFrozenAfterDone ==
    [][\A c \in DOMAIN userSessions :
         (userSessions[c].step >= 5 /\ c \in DOMAIN userSessions')
            => userSessions'[c].tripData.vacationStyle
                  = userSessions[c].tripData.vacationStyle
      ]_vars

-----------------------------------------------------------------------------
(* The questions that ask for a number, on their own: the chat has answered *)
(* the first six questions and goes on, by text and by the buttons offered, *)
(* to the summary and the generation                                        *)

Seven == <<"7">>
MinusOne == <<"-","1">>

NumberTexts == {Number, Zero, Seven, MinusOne, Word, MixedYes}

\* buttons of the adults (1-5), children (0-4) and hotel rating (1-5)
\* keyboards, and the Yes of the summary
NumberButtons ==
    { Button("adults", <<"1">>), Button("adults", <<"5">>),
      Button("kids", <<"0">>), Button("kids", <<"4">>),
      Button("luxury", <<"1">>), Button("luxury", <<"5">>),
      Button("confirm", <<"y","e","s">>) }

\* after /plan, "Rome", "2", "Rome", "Rome", "Rome" and "Rome", every send
\* delivered
AwaitingNumberAdults ==
    [step |-> 7,
     tripData |-> [NewTripData EXCEPT !.destination = Word,
                                      !.suggestDestination = "false",
                                      !.duration = JoinDays(Num(2)),
                                      !.timeOfYear = Word,
                                      !.vacationStyle = <<Word>>,
                                      !.departureCity = Word,
                                      !.currency = Word],
     messageIds |-> 7,
     userId |-> "A"]

InitNumbers ==
    /\ userSessions = [c \in {"A"} |-> AwaitingNumberAdults]
    /\ pending = [c \in Chats |-> NoPending]
    /\ gens = [c \in Chats |-> <<>>]
    /\ out = <<>>
    /\ last = Event("askSettled", "A", <<>>, NoData, TRUE, 0)
    /\ asked = [c \in Chats |-> IF c = "A" THEN 7 ELSE 0]
    /\ offScript = 0
    /\ NoReply
    /\ NoLinks
    /\ Started

NextNumbers ==
    \E c \in Solo :
        \/ \E text \in NumberTexts : OnText(c, text)
        \/ \E data \in NumberButtons : OnCallbackQuery(c, data)
        \/ AskSettled(c)
        \/ \E i \in 1..MaxGenerations, ok \in BOOLEAN : GenerationSettled(c, i, ok)

SpecNumbers == InitNumbers /\ [][NextNumbers]_vars

\* C33: the hotel rating of a session is unset or an integer from 1 to 5,
\* whether it was typed or clicked.
C33_RatingUnsetOrOneToFive ==
    \A c \in DOMAIN userSessions :
        LET luxuryLevel == userSessions[c].tripData.luxuryLevel
        IN  \/ luxuryLevel = Undefined
            \/ luxuryLevel.kind = "number" /\ luxuryLevel.n \in 1..5

\* C34: the trip parameters a generation hands to the prompt builder have at
\* least one adult and no negative number of children, whether the numbers
\* were typed, clicked or never given.
C34_AdultsAndChildren ==
    \A c \in Chats : \A i \in DOMAIN gens[c] :
        gens[c][i].pc # "loading"
            => /\ gens[c][i].tripData.numberAdults >= 1
               /\ gens[c][i].tripData.numberKids >= 0

\* a generation has prepared its parameters for a session that was never
\* given the number of adults
C34_Witness ==
    \E c \in DOMAIN userSessions : \E i \in DOMAIN gens[c] :
        /\ gens[c][i].pc = "openai" /\ gens[c][i].live
        /\ userSessions[c].tripData.numberAdults = 0
        /\ gens[c][i].tripData.numberAdults = 1

\* C35: in the trip parameters a generation hands to the prompt builder, the
\* suggest-destination flag is true exactly when the destination is the
\* 'unknown' sentinel, which is what an unset destination is handed on as.
C35_SuggestIffUnknown ==
    \A c \in Chats : \A i \in DOMAIN gens[c] :
        gens[c][i].pc # "loading"
            => /\ gens[c][i].tripData.suggestDestination \in {"true", "false"}
               /\ gens[c][i].tripData.suggestDestination = "true"
                    <=> gens[c][i].tripData.destination = UNKNOWN

\* a generation has prepared its parameters for a session whose destination
\* was answered with a blank text
C35_Witness ==
    \E c \in DOMAIN userSessions : \E i \in DOMAIN gens[c] :
        /\ gens[c][i].pc = "openai" /\ gens[c][i].live
        /\ userSessions[c].tripData.destination = UNKNOWN
        /\ userSessions[c].step = 10
        /\ gens[c][i].tripData.suggestDestination = "true"

\* C36: when the time of year is one of the twelve month names of the
\* keyboard, the hotel check-in and the flight's departure are in that month.
C36_MonthNameGivesThatMonth ==
    \A i \in 1..Len(months) :
        toLowerCase(linkTripData.timeOfYear) = months[i]
            => /\ HasParam(agodaLink, "checkIn")
                    => DateParam(agodaLink, "checkIn").m = i
               /\ HasParam(flightLink, "departDate")
                    => DateParam(flightLink, "departDate").m = i

-----------------------------------------------------------------------------
(* The generation of a confirmed session with the reply of the model in it: *)
(* the reply is parsed when it arrives, and the itinerary is formatted and  *)
(* sent once the loading message is deleted                                 *)

Member(key, value) == [key |-> key, value |-> value]

\* an itinerary with every field formatItinerary reads
FullItinerary ==
    JObject(<< Member(<<"t","i","t","l","e">>, JString(<<"T">>)),
               Member(<<"h","i","g","h","l","i","g","h","t","s">>, JArray(<<JString(<<"h">>)>>)),
               Member(<<"s","a","m","p","l","e","_","i","t","i","n","e","r","a","r","y">>, JArray(<<JString(<<"D",":","x">>)>>)),
               Member(<<"l","o","c","a","t","i","o","n","s">>, JArray(<<JString(<<"l">>)>>)),
               Member(<<"b","u","d","g","e","t">>, JObject(<<Member(<<"f","l","i","g","h","t","s">>, JNumber(1))>>)) >>)

\* the itinerary without its budget, with a text for its highlights, with a
\* number for a day, and with no field at all
FormatItineraries ==
    { FullItinerary,
      JObject(SubSeq(FullItinerary.members, 1, 4)),
      JObject(Put(FullItinerary.members, <<"h","i","g","h","l","i","g","h","t","s">>, JString(<<"h">>))),
      JObject(Put(FullItinerary.members, <<"s","a","m","p","l","e","_","i","t","i","n","e","r","a","r","y">>, JArray(<<JNumber(1)>>))),
      JObject(<<>>) }

\* replies of the model: an object, no object, and braces that are no JSON
Replies == {stringify(v) : v \in FormatItineraries} \cup {Word, <<"{","a","}">>}

\* after /plan and nine answers, every send delivered
AwaitingConfirmation ==
    [step |-> 10,
     tripData |-> [NewTripData EXCEPT !.destination = Word,
                                      !.suggestDestination = "false",
                                      !.duration = JoinDays(Num(2)),
                                      !.timeOfYear = Word,
                                      !.vacationStyle = <<Word>>,
                                      !.departureCity = Word,
                                      !.currency = Word,
                                      !.numberAdults = 2,
                                      !.numberKids = 2,
                                      !.luxuryLevel = Num(2)],
     messageIds |-> 9,
     userId |-> "A"]

InitFormat ==
    /\ userSessions = [c \in {"A"} |-> AwaitingConfirmation]
    /\ pending = [c \in Chats |-> NoPending]
    /\ gens = [c \in Chats |-> <<>>]
    /\ out = <<>>
    /\ last = Event("askSettled", "A", <<>>, NoData, TRUE, 0)
    /\ asked = [c \in Chats |-> IF c = "A" THEN 10 ELSE 0]
    /\ offScript = 0
    /\ response \in Replies
    /\ itinerary = NotParsed
    /\ NoLinks
    /\ Started

\* an await of generateItinerary other than the deletion of the loading
\* message settles; the request to the model returns with the reply parsed
AwaitSettled(c, i, ok) ==
    /\ i \in DOMAIN gens[c]
    /\ gens[c][i].pc = "delete" => ~ok
    /\ (gens[c][i].pc = "openai" /\ ok) => itinerary # NotParsed
    /\ GenerationSettled(c, i, ok)

\* the loading message is deleted: formatItinerary(itinerary, ...) and the send
LoadingDeleted(c, i) ==
    /\ i \in DOMAIN gens[c]
    /\ gens[c][i].pc = "delete"
    /\ UNCHANGED offScript
    /\ Commit(sendItinerary(World, c, i, formatItinerary(itinerary.value)),
              Event("generationSettled", c, <<>>, NoData, TRUE, i))

NextFormat ==
    \/ ParseResponse
    \/ \E c \in Solo :
        \/ \E text \in Texts : OnText(c, text)
        \/ \E i \in 1..MaxGenerations, ok \in BOOLEAN : AwaitSettled(c, i, ok)
        \/ \E i \in 1..MaxGenerations : LoadingDeleted(c, i)

SpecFormat == InitFormat /\ [][NextFormat]_vars

\* the itinerary object has not all the fields formatItinerary reads
LacksField(object) ==
    \E key \in {<<"h","i","g","h","l","i","g","h","t","s">>, <<"s","a","m","p","l","e","_","i","t","i","n","e","r","a","r","y">>, <<"l","o","c","a","t","i","o","n","s">>, <<"b","u","d","g","e","t">>} :
        property(object, key) = JUndefined

SpecFormatFair ==
    /\ SpecFormat
    /\ []<>(itinerary # NotParsed)
    /\ \A c \in Solo : \A i \in 1..MaxGenerations :
          WF_vars((\E ok \in BOOLEAN : AwaitSettled(c, i, ok)) \/ LoadingDeleted(c, i))

\* C38: if every outbound call eventually returns or fails, every generation
\* that has started eventually finishes, and by then the session that started
\* it is deleted: no confirmed session stays at the confirmation step.
C38_GenerationsFinish ==
    \A c \in Solo :
        (gens[c] # <<>>) ~> (gens[c] = <<>> /\ c \notin DOMAIN userSessions)

\* a generation has finished after a failed call, the session is gone
C38_Witness ==
    /\ last.kind = "generationSettled" /\ ~last.ok
    /\ gens[last.chat] = <<>>
    /\ last.chat \notin DOMAIN userSessions
-----------------------------------------------------------------------------
(* One conversation answered by text, with texts that begin with "/" sent  *)
(* at any question                                                         *)

Settings == <<"/","s","e","t","t","i","n","g","s">>
HelpCancel == <<"/","h","e","l","p"," ","/","c","a","n","c","e","l">>
Planet == <<"/","p","l","a","n","e","t">>

\* texts that begin with "/" and are neither /plan nor /cancel: the two other
\* commands, a command the bot does not have, a /help with words after it, and
\* a word that begins like a command
SlashTexts ==
    { <<"/","h","e","l","p">>, <<"/","s","t","a","r","t">>, Settings, HelpCancel, Planet }

SlashText(c, text) ==
    /\ gens[c] = <<>>
    /\ UNCHANGED offScript
    /\ Commit(onTextMessage(World, c, text), Event("text", c, text, NoData, TRUE, 0))

NextSlash ==
    \E c \in Solo :
        \/ PlanCommand(c)
        \/ TypedAnswer(c)
        \/ \E text \in SlashTexts : SlashText(c, text)
        \/ AskSettled(c)
        \/ \E ok \in BOOLEAN : PlanSettled(c, ok)
        \/ CurrencySetSettled(c)

SpecSlash == Init /\ [][NextSlash]_vars

\* C39: a text that begins with "/" and is neither /plan nor /cancel, /help
\* among them, leaves the step, the trip parameters and the list of message
\* ids of the chat's session as they were.
C39_SlashTextLeavesSession ==
    [][\A c \in DOMAIN userSessions :
         (/\ IsText(last', c)
          /\ startsWith(last'.text, <<"/">>)
          /\ last'.text \notin {<<"/","p","l","a","n">>, <<"/","c","a","n","c","e","l">>})
            => /\ c \in DOMAIN userSessions'
               /\ userSessions'[c].step = userSessions[c].step
               /\ userSessions'[c].tripData = userSessions[c].tripData
               /\ userSessions'[c].messageIds = userSessions[c].messageIds
      ]_vars

====
